---------------------------- MODULE Spec2Model ----------------------------
(***************************************************************************)
(* The organ allocation engine of src/project/src/services/                *)
(* matching.service.ts (class MatchingService) as a state machine.         *)
(*                                                                         *)
(* Conventions of the model                                                *)
(*  - Time is an integer number of ticks; TicksPerHour ticks make one      *)
(*    hour.  Date.now() is the variable now; ISO timestamps of a record    *)
(*    are tick values.                                                     *)
(*  - A nullable field is None (<<>>) or Some(v) (<<v>>).                  *)
(*  - A JavaScript number that is not an integer is an exact rational      *)
(*    [n |-> numerator, d |-> denominator > 0] in lowest terms; the        *)
(*    rounding error of IEEE doubles is not modelled.                      *)
(*  - A free text is a sequence of words joined by single blanks, a        *)
(*    keyword is a sequence of words, and String.includes is "occurs as a  *)
(*    contiguous run of words".  A word that ends in "/" is glued to the   *)
(*    next one without a blank.                                            *)
(*  - An allele string is a sequence of one-character strings.             *)
(***************************************************************************)
EXTENDS Integers, Sequences, FiniteSets, TLC

(***************************************************************************)
(* Bounds of the model.                                                    *)
(***************************************************************************)
\* Length up to which the pools over RecipientsCore are enumerated exhaustively.
MaxPool == 2
\* Most clock ticks that pass while one findMatches call is in progress.
MaxTicks == 1

\* Ticks per hour (one tick is three minutes).
TicksPerHour == 20

(***************************************************************************)
(* Nullable values.                                                        *)
(***************************************************************************)
None == <<>>
Some(v) == <<v>>
IsNull(x) == x = <<>>
Val(x) == x[1]

(***************************************************************************)
(* Exact rational arithmetic for JavaScript numbers.                       *)
(***************************************************************************)
Abs(x) == IF x < 0 THEN 0 - x ELSE x

RECURSIVE Gcd(_, _)
Gcd(a, b) == IF b = 0 THEN a ELSE Gcd(b, a % b)

\* The rational n/d (d > 0) in lowest terms.
Rat(n, d) ==
    LET g == Gcd(Abs(n), d)
    IN  [n |-> n \div g, d |-> d \div g]

RInt(i) == [n |-> i, d |-> 1]
RAdd(a, b) == Rat(a.n * b.d + b.n * a.d, a.d * b.d)
RSub(a, b) == Rat(a.n * b.d - b.n * a.d, a.d * b.d)
RMul(a, b) == Rat(a.n * b.n, a.d * b.d)
RLt(a, b) == a.n * b.d < b.n * a.d
RLe(a, b) == a.n * b.d <= b.n * a.d
RMin(a, b) == IF RLe(a, b) THEN a ELSE b
RMax(a, b) == IF RLe(a, b) THEN b ELSE a

\* Math.round(x): the integer nearest to x, halves rounded towards +infinity.
MathRound(x) == (2 * x.n + x.d) \div (2 * x.d)

(***************************************************************************)
(* Policy tables of MatchingService.                                       *)
(***************************************************************************)
BloodTypes == {"O-", "O+", "A-", "A+", "B-", "B+", "AB-", "AB+"}
OrganTypes == {"kidney", "heart", "liver"}

BLOOD_COMPATIBILITY ==
    [t \in BloodTypes |->
        CASE t = "O-"  -> {"O-", "O+", "A-", "A+", "B-", "B+", "AB-", "AB+"}
          [] t = "O+"  -> {"O+", "A+", "B+", "AB+"}
          [] t = "A-"  -> {"A-", "A+", "AB-", "AB+"}
          [] t = "A+"  -> {"A+", "AB+"}
          [] t = "B-"  -> {"B-", "B+", "AB-", "AB+"}
          [] t = "B+"  -> {"B+", "AB+"}
          [] t = "AB-" -> {"AB-", "AB+"}
          [] t = "AB+" -> {"AB+"}]

\* Default cold-ischemia window of an organ, in hours.
ORGAN_VIABILITY_HOURS ==
    [o \in OrganTypes |->
        CASE o = "kidney" -> 24 [] o = "heart" -> 6 [] o = "liver" -> 12]

\* Loci checked by the unacceptable-antigen crossmatch, in order.
HLA_IMPORTANCE ==
    [o \in OrganTypes |->
        CASE o = "kidney" -> <<"HLA-A", "HLA-B", "HLA-DR">>
          [] o = "liver"  -> <<"HLA-DR">>
          [] o = "heart"  -> <<"HLA-A", "HLA-B", "HLA-DR">>]

\* Per-locus weights, in insertion order, as <<locus, weight>> pairs.
HLA_LOCUS_WEIGHTS ==
    [o \in OrganTypes |->
        CASE o = "kidney" -> << <<"HLA-DR", Rat(5, 10)>>, <<"HLA-B", Rat(3, 10)>>,
                                <<"HLA-A", Rat(2, 10)>> >>
          [] o = "heart"  -> << <<"HLA-DR", Rat(4, 10)>>, <<"HLA-B", Rat(35, 100)>>,
                                <<"HLA-A", Rat(25, 100)>> >>
          [] o = "liver"  -> << <<"HLA-DR", Rat(10, 10)>> >>]

\* Age rules; a donor rule without a minimum has min = None.
AGE_RULES ==
    [o \in OrganTypes |->
        CASE o = "kidney" -> [donor |-> [min |-> Some(18), max |-> Some(70)],
                              recipient |-> [max |-> 75], maxDiff |-> 20]
          [] o = "heart"  -> [donor |-> [min |-> None, max |-> Some(65)],
                              recipient |-> [max |-> 70], maxDiff |-> 10]
          [] o = "liver"  -> [donor |-> [min |-> Some(18), max |-> Some(70)],
                              recipient |-> [max |-> 75], maxDiff |-> 25]]

MEDICAL_EXCLUSIONS_donor_general ==
    << <<"infection">>, <<"malignancy">>, <<"psychiatric", "illness">>,
       <<"alcohol", "abuse">>, <<"drug", "abuse">> >>

MEDICAL_EXCLUSIONS_donor ==
    [o \in OrganTypes |->
        CASE o = "kidney" ->
               << <<"kidney", "disease">>, <<"low", "gfr">>,
                  <<"polycystic", "kidney", "disease">>,
                  <<"diabetes", "with", "organ", "damage">>,
                  <<"hypertension">>, <<"proteinuria">>, <<"hematuria">>,
                  <<"kidney", "stone">>, <<"glomerulonephritis">>,
                  <<"renal", "infection">>, <<"nephrotoxic">>,
                  <<"ethylene", "glycol">>, <<"lithium">>, <<"diabetes">> >>
          [] o = "heart" ->
               << <<"coronary", "artery", "disease">>,
                  <<"myocardial", "infarction">>, <<"myocardial", "infarction">>,
                  <<"heart", "attack">>, <<"valvular", "disease">>,
                  <<"cardiomyopathy">>, <<"congenital", "heart", "disease">>,
                  <<"malignant", "arrhythmias">>, <<"pulmonary", "hypertension">>,
                  <<"chest", "trauma">>, <<"heart", "trauma">>, <<"diabetes">> >>
          [] o = "liver" ->
               << <<"cirrhosis">>, <<"chronic", "hepatitis", "with", "fibrosis">>,
                  <<"fatty", "liver", ">30%">>, <<"alcoholic", "liver", "disease">>,
                  <<"biliary", "disease">>, <<"wilson's", "disease">>,
                  <<"hemochromatosis">>, <<"alpha-1", "antitrypsin", "deficiency">>,
                  <<"portal", "hypertension">>, <<"liver", "failure">>,
                  <<"hepatotoxic">>, <<"paracetamol", "overdose">>,
                  <<"hepatitis", "b">>, <<"hepatitis", "c">> >>]

MEDICAL_EXCLUSIONS_recipient_general ==
    << <<"infection">>, <<"malignancy">>,
       <<"uncontrolled", "psychiatric", "illness">>,
       <<"active", "alcohol", "abuse">>, <<"drug", "abuse">>,
       <<"non-compliance", "with", "therapy">> >>

MEDICAL_EXCLUSIONS_recipient ==
    [o \in OrganTypes |->
        CASE o = "kidney" ->
               << <<"cancer">>, <<"cardiovascular", "disease">>,
                  <<"peripheral", "vascular", "disease">>,
                  <<"neurological", "impairment">>,
                  <<"non-compliance", "with", "dialysis">>,
                  <<"life", "expectancy", "<2", "years">> >>
          [] o = "heart" ->
               << <<"irreversible", "pulmonary", "hypertension">>,
                  <<"irreversible", "kidney", "disease">>,
                  <<"irreversible", "liver", "disease">>,
                  <<"peripheral", "vascular", "disease">>,
                  <<"advanced", "neurological", "deficits">> >>
          [] o = "liver" ->
               << <<"uncontrolled", "sepsis">>, <<"extrahepatic", "malignancy">>,
                  <<"heart", "disease">>, <<"lung", "disease">>, <<"hiv">>,
                  <<"persistent", "alcohol/", "drug", "abuse">>,
                  <<"irreversible", "brain", "injury">> >>]

(***************************************************************************)
(* Free text.                                                              *)
(***************************************************************************)
\* String.prototype.toLowerCase on one word.
LowerWord(w) ==
    CASE w = "Diabetes"     -> "diabetes"
      [] w = "HIV"          -> "hiv"
      [] w = "Hypertension" -> "hypertension"
      [] w = "Cancer"       -> "cancer"
      [] w = "Infection"    -> "infection"
      [] OTHER              -> w

toLowerCase(text) == [i \in 1..Len(text) |-> LowerWord(text[i])]

\* String.prototype.includes: keyword occurs in text.
includes(text, keyword) ==
    \E i \in 1..(Len(text) - Len(keyword) + 1) :
        \A j \in 1..Len(keyword) : text[i + j - 1] = keyword[j]

\* Template-literal / + conversion of a nullable text: null prints as "null".
Str(t) == IF IsNull(t) THEN <<"null">> ELSE Val(t)

(***************************************************************************)
(* HLA alleles and antigens (strings as sequences of characters).          *)
(***************************************************************************)
Digits == {"0", "1", "2", "3", "4", "5", "6", "7", "8", "9"}

DigitVal(c) ==
    CASE c = "0" -> 0 [] c = "1" -> 1 [] c = "2" -> 2 [] c = "3" -> 3
      [] c = "4" -> 4 [] c = "5" -> 5 [] c = "6" -> 6 [] c = "7" -> 7
      [] c = "8" -> 8 [] c = "9" -> 9

DigitChar(n) ==
    CASE n = 0 -> "0" [] n = 1 -> "1" [] n = 2 -> "2" [] n = 3 -> "3"
      [] n = 4 -> "4" [] n = 5 -> "5" [] n = 6 -> "6" [] n = 7 -> "7"
      [] n = 8 -> "8" [] n = 9 -> "9"

\* String(n) for 0 <= n <= 99: no leading zero.
IntToChars(n) ==
    IF n < 10 THEN <<DigitChar(n)>> ELSE <<DigitChar(n \div 10), DigitChar(n % 10)>>

UpperChar(c) ==
    CASE c = "a" -> "A" [] c = "b" -> "B" [] c = "c" -> "C" [] c = "d" -> "D"
      [] c = "h" -> "H" [] c = "l" -> "L" [] c = "p" -> "P" [] c = "q" -> "Q"
      [] c = "r" -> "R" [] c = "x" -> "X" [] OTHER -> c

toUpperCase(s) == [i \in 1..Len(s) |-> UpperChar(s[i])]

RECURSIVE trimStart(_)
trimStart(s) == IF s # <<>> /\ Head(s) = " " THEN trimStart(Tail(s)) ELSE s

RECURSIVE trimEnd(_)
trimEnd(s) ==
    IF s # <<>> /\ s[Len(s)] = " " THEN trimEnd(SubSeq(s, 1, Len(s) - 1)) ELSE s

\* String.prototype.trim
trim(s) == trimEnd(trimStart(s))

startsWith(s, prefix) ==
    /\ Len(s) >= Len(prefix)
    /\ SubSeq(s, 1, Len(prefix)) = prefix

\* s.replace(/^prefix/, by)
replacePrefix(s, prefix, by) ==
    IF startsWith(s, prefix) THEN by \o SubSeq(s, Len(prefix) + 1, Len(s)) ELSE s

\* a.match(/\*?(\d{2})/): the first two consecutive digits of a, or None.
matchTwoDigit(a) ==
    LET hits == {i \in 1..(Len(a) - 1) : a[i] \in Digits /\ a[i + 1] \in Digits}
    IN  IF hits = {} THEN None
        ELSE LET i == CHOOSE k \in hits : \A m \in hits : k <= m
             IN  Some(<<a[i], a[i + 1]>>)

\* parseInt(twoDigit, 10)
parseInt(two) == 10 * DigitVal(two[1]) + DigitVal(two[2])

HLA_ == <<"H", "L", "A", "-">>
DRB1star == <<"D", "R", "B", "1", "*">>

\* A locus key as characters, upper-cased (locusKey.toUpperCase()).
LocusChars(locusKey) ==
    CASE locusKey = "HLA-A"  -> <<"H", "L", "A", "-", "A">>
      [] locusKey = "HLA-B"  -> <<"H", "L", "A", "-", "B">>
      [] locusKey = "HLA-C"  -> <<"H", "L", "A", "-", "C">>
      [] locusKey = "HLA-DR" -> <<"H", "L", "A", "-", "D", "R">>
      [] locusKey = "HLA-DQ" -> <<"H", "L", "A", "-", "D", "Q">>
      [] locusKey = "HLA-DP" -> <<"H", "L", "A", "-", "D", "P">>

\* lc.includes(sub) on character strings.
includesChars(s, sub) ==
    \E i \in 1..(Len(s) - Len(sub) + 1) : SubSeq(s, i, i + Len(sub) - 1) = sub

\* Allele string -> antigen-level string (A*02:01 -> A2, DRB1*15:01 -> DR15).
\* twoDigit ? `${letters}${parseInt(twoDigit, 10)}` : fallback
antigenOf(twoDigit, letters, fallback) ==
    IF ~IsNull(twoDigit) THEN letters \o IntToChars(parseInt(Val(twoDigit)))
    ELSE fallback

\* a.replace(/^HLA-/, '')
stripHLA(a) == replacePrefix(a, HLA_, <<>>)

\* The locus branches of normalizeAllele on the upper-cased, trimmed allele a.
normalizeUpper(a, twoDigit, lc) ==
    CASE includesChars(lc, <<"H", "L", "A", "-", "A">>) ->
           antigenOf(twoDigit, <<"A">>, stripHLA(a))
      [] includesChars(lc, <<"H", "L", "A", "-", "B">>) ->
           antigenOf(twoDigit, <<"B">>, stripHLA(a))
      [] includesChars(lc, <<"H", "L", "A", "-", "D", "R">>) ->
           antigenOf(twoDigit, <<"D", "R">>,
                     replacePrefix(stripHLA(a), DRB1star, <<"D", "R">>))
      [] includesChars(lc, <<"H", "L", "A", "-", "C">>) ->
           antigenOf(twoDigit, <<"C">>, stripHLA(a))
      [] includesChars(lc, <<"H", "L", "A", "-", "D", "Q">>) ->
           antigenOf(twoDigit, <<"D", "Q">>, stripHLA(a))
      [] includesChars(lc, <<"H", "L", "A", "-", "D", "P">>) ->
           antigenOf(twoDigit, <<"D", "P">>, stripHLA(a))
      [] OTHER -> stripHLA(a)

\* a = allele.toUpperCase().trim() and its two-digit group, then the branches.
normalizeTrimmed(a, locusKey) == normalizeUpper(a, matchTwoDigit(a), LocusChars(locusKey))

\* Allele string -> antigen-level string (A*02:01 -> A2, DRB1*15:01 -> DR15).
normalizeAllele(allele, locusKey) ==
    IF allele = <<>> THEN <<>>
    ELSE normalizeTrimmed(trim(toUpperCase(allele)), locusKey)

\* Allele list -> set of antigen-level strings; blank entries are skipped.
alleleListToAntigens(alleles, locusKey) ==
    {normalizeAllele(alleles[i], locusKey) :
        i \in {k \in 1..Len(alleles) : Len(trim(alleles[k])) > 0}}

\* Match ratio of one locus in [0, 1], or -1 when a side has no antigen.
\* The ratio of two antigen sets: -1 when a side is empty.
\* Variant that always divides by two alleles.
locusRatioOfTwo(donorAntigens, recipientAntigens) ==
    IF donorAntigens = {} \/ recipientAntigens = {} THEN RInt(-1)
    ELSE RMin(RInt(1), Rat(Cardinality(donorAntigens \cap recipientAntigens), 2))

locusRatioOf(donorAntigens, recipientAntigens) ==
    LET matches == Cardinality(donorAntigens \cap recipientAntigens)
        size == Cardinality(donorAntigens)
        denom == IF size < 2 THEN (IF size < 1 THEN 1 ELSE size) ELSE 2
    IN  IF donorAntigens = {} \/ recipientAntigens = {} THEN RInt(-1)
        ELSE RMin(RInt(1), Rat(matches, denom))

\* Match ratio of one locus in [0, 1], or -1 when a side has no antigen.
computeLocusMatchRatio(donorAlleles, recipientAlleles, locusKey) ==
    locusRatioOf(alleleListToAntigens(donorAlleles, locusKey),
                 alleleListToAntigens(recipientAlleles, locusKey))

\* hla?.[locusKey] || []
HlaLocus(hla, locusKey) ==
    IF IsNull(hla) THEN <<>>
    ELSE IF locusKey \in DOMAIN Val(hla) THEN Val(hla)[locusKey] ELSE <<>>

\* Variant that counts a locus without data as a mismatch.
hlaAccumulateMismatch(locusRatio, w, acc) ==
    IF RLe(RInt(0), locusRatio)
    THEN <<RAdd(RMul(locusRatio, w), acc[1]), RAdd(w, acc[2])>>
    ELSE <<acc[1], RAdd(w, acc[2])>>

\* if (locusRatio >= 0) { weightedSum += locusRatio * w; weightsUsed += w }
hlaAccumulate(locusRatio, w, acc) ==
    IF RLe(RInt(0), locusRatio)
    THEN <<RAdd(RMul(locusRatio, w), acc[1]), RAdd(w, acc[2])>>
    ELSE acc

RECURSIVE HlaFold(_, _, _, _)
\* The forEach over the weight entries from index i: <<weightedSum, weightsUsed>>.
HlaFold(donorHLA, recipientHLA, weights, i) ==
    IF i > Len(weights) THEN <<RInt(0), RInt(0)>>
    ELSE hlaAccumulate(
             computeLocusMatchRatio(HlaLocus(donorHLA, weights[i][1]),
                                    HlaLocus(recipientHLA, weights[i][1]),
                                    weights[i][1]),
             weights[i][2],
             HlaFold(donorHLA, recipientHLA, weights, i + 1))

\* Weighted per-locus HLA score in [0, 1]; 1 when no locus has data on both sides.
\* weightsUsed === 0 ? 1 : Math.min(1, Math.max(0, weightedSum / weightsUsed))
hlaNormalise(acc) ==
    IF acc[2] = RInt(0) THEN RInt(1)
    ELSE RMin(RInt(1), RMax(RInt(0), Rat(acc[1].n * acc[2].d, acc[1].d * acc[2].n)))

\* Weighted per-locus HLA score in [0, 1]; 1 when no locus has data on both sides.
calculateHLACompatibility(donorHLA, recipientHLA, organ) ==
    hlaNormalise(HlaFold(donorHLA, recipientHLA, HLA_LOCUS_WEIGHTS[organ], 1))

(***************************************************************************)
(* Eligibility filter.                                                     *)
(***************************************************************************)
\* BLOOD_COMPATIBILITY[donorType].includes(recipientType)
\* Variant that reads the table in the opposite direction.
isBloodCompatibleSwapped(donorType, recipientType) ==
    recipientType \in BloodTypes /\ donorType \in BLOOD_COMPATIBILITY[recipientType]

isBloodCompatible(donorType, recipientType) ==
    recipientType \in BLOOD_COMPATIBILITY[donorType]

\* The first keyword of the list that the text includes, or None.
FirstKeyword(history, keywords) ==
    LET hits == {i \in 1..Len(keywords) : includes(history, keywords[i])}
    IN  IF hits = {} THEN None
        ELSE Some(keywords[CHOOSE i \in hits : \A j \in hits : i <= j])

\* The reason of an ineligibility ("null" when eligible).
Reason(kind, person, organ, keyword) ==
    [kind |-> kind, age |-> person.age, organ |-> organ, keyword |-> keyword]

\* The age check and the keyword loop of isDonorEligible, given the rule and
\* the first exclusion keyword found in the history.
donorVerdict(donor, organ, ageRule, hit) ==
    IF \/ (~IsNull(ageRule.min) /\ donor.age < Val(ageRule.min))
       \/ (~IsNull(ageRule.max) /\ donor.age > Val(ageRule.max))
    THEN [eligible |-> FALSE, reason |-> Reason("age", donor, organ, <<>>)]
    ELSE IF ~IsNull(hit)
    THEN [eligible |-> FALSE, reason |-> Reason("keyword", donor, organ, Val(hit))]
    ELSE [eligible |-> TRUE, reason |-> Reason("null", donor, organ, <<>>)]

\* (donor.medical_history + ' ' + donor.cause_of_death).toLowerCase()
donorHistoryText(donor) ==
    toLowerCase(Str(donor.medical_history) \o Str(donor.cause_of_death))

\* Donor screening: age range of the organ, then the exclusion keywords.
\* Variant that looks for the general exclusions only.
isDonorEligibleGeneralOnly(donor, organ) ==
    donorVerdict(donor, organ, AGE_RULES[organ].donor,
                 FirstKeyword(donorHistoryText(donor), MEDICAL_EXCLUSIONS_donor_general))

isDonorEligible(donor, organ) ==
    donorVerdict(donor, organ, AGE_RULES[organ].donor,
                 FirstKeyword(donorHistoryText(donor),
                     MEDICAL_EXCLUSIONS_donor_general \o MEDICAL_EXCLUSIONS_donor[organ]))

\* The age check and the keyword loop of isRecipientEligible.
recipientVerdict(recipient, ageRule, hit) ==
    IF ageRule.max # 0 /\ recipient.age > ageRule.max
    THEN [threw |-> FALSE, eligible |-> FALSE]
    ELSE IF ~IsNull(hit)
    THEN [threw |-> FALSE, eligible |-> FALSE]
    ELSE [threw |-> FALSE, eligible |-> TRUE]

\* Recipient screening.  Reading .toLowerCase() of a missing medical_history
\* raises a TypeError: threw = TRUE.
isRecipientEligible(recipient, organ) ==
    IF IsNull(recipient.medical_history)
    THEN [threw |-> TRUE, eligible |-> FALSE]
    ELSE recipientVerdict(recipient, AGE_RULES[organ].recipient,
             FirstKeyword(toLowerCase(Val(recipient.medical_history)),
                 MEDICAL_EXCLUSIONS_recipient_general
                     \o MEDICAL_EXCLUSIONS_recipient[organ]))

\* The locus inferred from the leading characters of an unacceptable-antigen entry.
inferredLocus(upper) ==
    IF startsWith(upper, <<"A">>) THEN "HLA-A"
    ELSE IF startsWith(upper, <<"B">>) THEN "HLA-B"
    ELSE IF startsWith(upper, <<"C">>) THEN "HLA-C"
    ELSE IF startsWith(upper, <<"D", "Q">>) THEN "HLA-DQ"
    ELSE IF startsWith(upper, <<"D", "P">>) THEN "HLA-DP"
    ELSE IF startsWith(upper, <<"D", "R">>) \/ startsWith(upper, <<"D", "R", "B", "1">>)
         THEN "HLA-DR"
    ELSE "HLA-A"

\* recipient.unacceptable_antigens || recipient.hla_typing.unacceptable_antigens || []
\* (an empty array is truthy and is taken as it is).
unacceptableRaw(recipient) ==
    IF ~IsNull(recipient.unacceptable_antigens)
    THEN Val(recipient.unacceptable_antigens)
    ELSE HlaLocus(recipient.hla_typing, "unacceptable_antigens")

\* One entry of the unacceptable list, already upper-cased and trimmed.
normalizeUnacceptable(upper) == normalizeAllele(upper, inferredLocus(upper))

\* The unacceptable list as a set of antigen-level strings; blanks are skipped.
unacceptableSet(unacceptable) ==
    {normalizeUnacceptable(trim(toUpperCase(unacceptable[i]))) :
        i \in {k \in 1..Len(unacceptable) : Len(trim(unacceptable[k])) > 0}}

\* The donor's antigens over the important loci.
donorAntigensAt(donorHLA, importantLoci) ==
    UNION {alleleListToAntigens(HlaLocus(donorHLA, importantLoci[i]), importantLoci[i]) :
               i \in 1..Len(importantLoci)}

conflictOf(donorAntigens, unacceptableAntigens) ==
    IF unacceptableAntigens = {} THEN FALSE
    ELSE donorAntigens \cap unacceptableAntigens # {}

\* Virtual crossmatch: a donor antigen at an important locus is unacceptable.
hasUnacceptableAntigenConflict(donorHLA, recipient, organ) ==
    conflictOf(donorAntigensAt(donorHLA, HLA_IMPORTANCE[organ]),
               unacceptableSet(unacceptableRaw(recipient)))

\* Variant that also drops the recipients of the other gender.
filterEligibleSameGender(donor, r, organ, recipientEligibility) ==
    IF recipientEligibility.threw THEN "throw"
    ELSE IF ~recipientEligibility.eligible THEN "drop"
    ELSE IF hasUnacceptableAntigenConflict(donor.hla_typing, r, organ) THEN "drop"
    ELSE IF Abs(donor.age - r.age) > AGE_RULES[organ].maxDiff THEN "drop"
    ELSE IF donor.gender # r.gender THEN "drop"
    ELSE "keep"

\* The checks of the filter callback after the blood-type check.
\* Variant without the age-difference gate.
filterEligibleAnyAge(donor, r, organ, recipientEligibility) ==
    IF recipientEligibility.threw THEN "throw"
    ELSE IF ~recipientEligibility.eligible THEN "drop"
    ELSE IF hasUnacceptableAntigenConflict(donor.hla_typing, r, organ) THEN "drop"
    ELSE "keep"

filterEligible(donor, r, organ, recipientEligibility) ==
    IF recipientEligibility.threw THEN "throw"
    ELSE IF ~recipientEligibility.eligible THEN "drop"
    ELSE IF hasUnacceptableAntigenConflict(donor.hla_typing, r, organ) THEN "drop"
    ELSE IF Abs(donor.age - r.age) > AGE_RULES[organ].maxDiff THEN "drop"
    ELSE "keep"

\* The predicate of recipients.filter(...): "keep", "drop" or "throw".
filterRecipient(donor, r, organ) ==
    IF r.organ_needed # organ THEN "drop"
    ELSE IF r.status # "active" THEN "drop"
    ELSE IF ~isBloodCompatible(donor.blood_type, r.blood_type) THEN "drop"
    ELSE filterEligible(donor, r, organ, isRecipientEligible(r, organ))

\* One step of the filter: the verdict on an element before the rest.
filterStep(verdict, r, rest) ==
    IF verdict = "throw" \/ rest.threw THEN [threw |-> TRUE, kept |-> <<>>]
    ELSE IF verdict = "keep" THEN [threw |-> FALSE, kept |-> <<r>> \o rest.kept]
    ELSE rest

RECURSIVE filterFrom(_, _, _, _)
\* Array.prototype.filter from index i: [threw, kept]; a throw discards all.
filterFrom(donor, recipients, organ, i) ==
    IF i > Len(recipients) THEN [threw |-> FALSE, kept |-> <<>>]
    ELSE filterStep(filterRecipient(donor, recipients[i], organ), recipients[i],
                    filterFrom(donor, recipients, organ, i + 1))

(***************************************************************************)
(* Viability tracker.  Every operator that reads Date.now() takes the      *)
(* value read as its last parameter.                                       *)
(***************************************************************************)
\* Explicit ischemia_start_at; else updated_at || created_at when a CIT is set;
\* else created_at.
getIschemiaStartAt(donor) ==
    IF ~IsNull(donor.ischemia_start_at) THEN donor.ischemia_start_at
    ELSE IF ~IsNull(donor.cold_ischemia_time_hours)
    THEN (IF ~IsNull(donor.updated_at) THEN donor.updated_at ELSE donor.created_at)
    ELSE donor.created_at

\* Hours elapsed since a timestamp, never negative; 0 for a missing timestamp.
getElapsedHoursSince(dateIso, clock) ==
    IF IsNull(dateIso) THEN RInt(0)
    ELSE RMax(RInt(0), Rat(clock - Val(dateIso), TicksPerHour))

getIschemiaLimitHours(donor, organ) ==
    IF ~IsNull(donor.cold_ischemia_time_hours)
    THEN Val(donor.cold_ischemia_time_hours)
    ELSE ORGAN_VIABILITY_HOURS[organ]

\* Math.round(Math.max(0, limit - elapsed) * 10) / 10
roundedRemaining(limit, elapsed) ==
    Rat(MathRound(RMul(RMax(RInt(0), RSub(limit, elapsed)), RInt(10))), 10)

\* Variant that counts down from the record's timestamp without an explicit CIT.
getRemainingIschemiaHoursCountdown(donor, organ, clock) ==
    roundedRemaining(RInt(getIschemiaLimitHours(donor, organ)),
                     getElapsedHoursSince(getIschemiaStartAt(donor), clock))

\* Remaining hours of the window, rounded to one decimal; the static limit
\* when no explicit CIT is set.
getRemainingIschemiaHours(donor, organ, clock) ==
    IF IsNull(donor.cold_ischemia_time_hours)
    THEN RInt(getIschemiaLimitHours(donor, organ))
    ELSE roundedRemaining(RInt(getIschemiaLimitHours(donor, organ)),
                          getElapsedHoursSince(getIschemiaStartAt(donor), clock))

\* Variant that takes zero remaining hours as viable.
isOrganViableNowInclusive(donor, organ, clock) ==
    RLe(RInt(0), getRemainingIschemiaHours(donor, organ, clock))

isOrganViableNow(donor, organ, clock) ==
    RLt(RInt(0), getRemainingIschemiaHours(donor, organ, clock))

(***************************************************************************)
(* Compatibility scorer.                                                   *)
(***************************************************************************)
\* Truthiness of a nullable number: neither null nor 0.
Truthy(x) == ~IsNull(x) /\ Val(x) # 0

getSizeBounds(organ) ==
    CASE organ = "heart"  -> [minRatio |-> Rat(7, 10), maxRatio |-> Rat(13, 10)]
      [] organ = "liver"  -> [minRatio |-> Rat(6, 10), maxRatio |-> Rat(15, 10)]
      [] organ = "kidney" -> [minRatio |-> Rat(5, 10), maxRatio |-> Rat(20, 10)]
      [] OTHER            -> [minRatio |-> Rat(7, 10), maxRatio |-> Rat(13, 10)]

isSizeCompatible(donor, recipient, minRatio, maxRatio) ==
    IF ~Truthy(donor.weight_kg) \/ ~Truthy(recipient.weight_kg) THEN TRUE
    ELSE
      LET weightRatio == Rat(Val(donor.weight_kg), Val(recipient.weight_kg))
      IN  RLe(minRatio, weightRatio) /\ RLe(weightRatio, maxRatio)

isGenderCompatible(donorGender, recipientGender, organ) ==
    IF donorGender = recipientGender THEN TRUE
    ELSE IF organ = "heart" /\ donorGender = "female" /\ recipientGender = "male"
    THEN TRUE
    ELSE FALSE

\* The sum of an organ-specific block: [score, hla, size, gender].
organBlock(meldBonus, hlaScore, hlaPoints, sizeCompatible, sizePoints, genderCompatible) ==
    [score |-> RAdd(RAdd(RAdd(meldBonus, RMul(hlaScore, RInt(hlaPoints))),
                         RInt(IF sizeCompatible THEN sizePoints ELSE 0)),
                    RInt(IF genderCompatible THEN 5 ELSE 0)),
     hla |-> hlaScore, size |-> sizeCompatible, gender |-> genderCompatible]

calculateHeartMatchFactors(donor, recipient) ==
    organBlock(RInt(0),
               calculateHLACompatibility(donor.hla_typing, recipient.hla_typing, "heart"),
               25,
               isSizeCompatible(donor, recipient, Rat(7, 10), Rat(13, 10)),
               25,
               isGenderCompatible(donor.gender, recipient.gender, "heart"))

\* if (recipient.meld_score) score += Math.min(recipient.meld_score / 40 * 20, 20)
meldBonus(recipient) ==
    IF Truthy(recipient.meld_score)
    THEN RMin(Rat(Val(recipient.meld_score) * 20, 40), RInt(20))
    ELSE RInt(0)

\* Variant with the size points of the heart block.
calculateLiverMatchFactorsHeartPoints(donor, recipient) ==
    organBlock(meldBonus(recipient),
               calculateHLACompatibility(donor.hla_typing, recipient.hla_typing, "liver"),
               10,
               isSizeCompatible(donor, recipient, Rat(6, 10), Rat(15, 10)),
               25,
               isGenderCompatible(donor.gender, recipient.gender, "liver"))

calculateLiverMatchFactors(donor, recipient) ==
    organBlock(meldBonus(recipient),
               calculateHLACompatibility(donor.hla_typing, recipient.hla_typing, "liver"),
               10,
               isSizeCompatible(donor, recipient, Rat(6, 10), Rat(15, 10)),
               20,
               isGenderCompatible(donor.gender, recipient.gender, "liver"))

calculateKidneyMatchFactors(donor, recipient) ==
    organBlock(RInt(0),
               calculateHLACompatibility(donor.hla_typing, recipient.hla_typing, "kidney"),
               35,
               isSizeCompatible(donor, recipient, Rat(5, 10), Rat(20, 10)),
               15,
               isGenderCompatible(donor.gender, recipient.gender, "kidney"))

(***************************************************************************)
(* Risk and urgency classifier.                                            *)
(***************************************************************************)
COMORBIDITY_BUCKETS ==
    << [keywords |-> << <<"diabetes">> >>, penalty |-> 3],
       [keywords |-> << <<"hypertension">>, <<"pulmonary", "hypertension">> >>,
        penalty |-> 3],
       [keywords |-> << <<"coronary", "artery", "disease">>, <<"cad">>,
                        <<"myocardial", "infarction">>, <<"heart", "attack">> >>,
        penalty |-> 4],
       [keywords |-> << <<"infection">>, <<"sepsis">> >>, penalty |-> 4],
       [keywords |-> << <<"malignancy">>, <<"cancer">> >>, penalty |-> 4],
       [keywords |-> << <<"smoker">>, <<"smoking">>, <<"tobacco">> >>, penalty |-> 2],
       [keywords |-> << <<"alcohol", "abuse">>, <<"drug", "abuse">> >>, penalty |-> 2] >>

\* donorHistory || '' : a missing text counts as empty.
OrEmpty(t) == IF IsNull(t) THEN <<>> ELSE Val(t)

RECURSIVE BucketSum(_, _)
\* The loop over the buckets from index i.
BucketSum(text, i) ==
    IF i > Len(COMORBIDITY_BUCKETS) THEN 0
    ELSE (IF ~IsNull(FirstKeyword(text, COMORBIDITY_BUCKETS[i].keywords))
          THEN COMORBIDITY_BUCKETS[i].penalty ELSE 0) + BucketSum(text, i + 1)

\* Math.min(penalty, 15)
capPenalty(penalty) == IF penalty < 15 THEN penalty ELSE 15

getComorbidityPenalty(donorHistory, recipientHistory) ==
    capPenalty(BucketSum(toLowerCase(OrEmpty(donorHistory) \o OrEmpty(recipientHistory)), 1))

\* elapsedHrs > windowHrs ? 20 : Math.min(8, (elapsedHrs / windowHrs) * 8)
citPenalty(windowHrs, elapsedHrs) ==
    IF RLt(windowHrs, elapsedHrs) THEN RInt(20)
    ELSE RMin(RInt(8), Rat(elapsedHrs.n * windowHrs.d * 8, elapsedHrs.d * windowHrs.n))

\* The cold-ischemia risk term; clock is the Date.now() read by calculateRisk.
coldIschemiaPenalty(donor, clock) ==
    IF IsNull(donor.cold_ischemia_time_hours) THEN RInt(0)
    ELSE citPenalty(RInt(Val(donor.cold_ischemia_time_hours)),
                    getElapsedHoursSince(getIschemiaStartAt(donor), clock))

\* 1) age related risk
ageRisk(donor, recipient) ==
    (IF donor.age > 60 \/ recipient.age > 65 THEN 15 ELSE 0)
    + (IF Abs(donor.age - recipient.age) > 25 THEN 10 ELSE 0)

\* Variant where the second step is not an else branch.
scoreRiskBothSteps(matchScore) ==
    (IF RLt(matchScore, RInt(50)) THEN 20 ELSE 0)
    + (IF RLt(matchScore, RInt(70)) THEN 10 ELSE 0)

\* 2) match-score related risk
scoreRisk(matchScore) ==
    IF RLt(matchScore, RInt(50)) THEN 20
    ELSE IF RLt(matchScore, RInt(70)) THEN 10 ELSE 0

\* 3) organ-specific urgency risks
organRisk(recipient, organ) ==
    CASE organ = "heart" -> (IF recipient.unos_status = Some("1A") THEN 5 ELSE 0)
      [] organ = "liver" ->
           (IF Truthy(recipient.meld_score) /\ Val(recipient.meld_score) > 25
            THEN 10 ELSE 0)
      [] OTHER -> 0

\* 4) HLA mismatch penalty
hlaRisk(hlaScore, organ) ==
    RMul(RSub(RInt(1), hlaScore),
         RInt(IF organ = "kidney" THEN 20 ELSE IF organ = "heart" THEN 15 ELSE 8))

outsideBounds(ratio, bounds) ==
    RLt(ratio, bounds.minRatio) \/ RLt(bounds.maxRatio, ratio)

\* Variant that penalises a ratio on the edge of the band.
sizeRiskEdge(donor, recipient, organ) ==
    IF Truthy(donor.weight_kg) /\ Truthy(recipient.weight_kg)
    THEN (IF \/ RLe(Rat(Val(donor.weight_kg), Val(recipient.weight_kg)),
                    getSizeBounds(organ).minRatio)
             \/ RLe(getSizeBounds(organ).maxRatio,
                    Rat(Val(donor.weight_kg), Val(recipient.weight_kg)))
          THEN 10 ELSE 0)
    ELSE 0

\* 5) size mismatch penalty
sizeRisk(donor, recipient, organ) ==
    IF Truthy(donor.weight_kg) /\ Truthy(recipient.weight_kg)
    THEN (IF outsideBounds(Rat(Val(donor.weight_kg), Val(recipient.weight_kg)),
                           getSizeBounds(organ))
          THEN 10 ELSE 0)
    ELSE 0

\* Cap at 80 and map to the level.
\* Variant without the cap of 80 on the percentage.
riskOfUncapped(riskFactors) ==
    [risk_level |-> IF RLt(riskFactors, RInt(25)) THEN "low"
                    ELSE IF RLt(riskFactors, RInt(50)) THEN "medium"
                    ELSE "high",
     risk_percentage |-> riskFactors]

riskOf(riskFactors) ==
    LET risk_percentage == RMin(riskFactors, RInt(80))
    IN  [risk_level |-> IF RLt(risk_percentage, RInt(25)) THEN "low"
                        ELSE IF RLt(risk_percentage, RInt(50)) THEN "medium"
                        ELSE "high",
         risk_percentage |-> risk_percentage]

calculateRisk(donor, recipient, organ, matchScore, clock) ==
    riskOf(RAdd(RAdd(RAdd(RInt(ageRisk(donor, recipient) + scoreRisk(matchScore)
                                   + organRisk(recipient, organ)
                                   + sizeRisk(donor, recipient, organ)),
                          hlaRisk(calculateHLACompatibility(donor.hla_typing,
                                      recipient.hla_typing, organ), organ)),
                     coldIschemiaPenalty(donor, clock)),
                RInt(getComorbidityPenalty(donor.medical_history,
                                           recipient.medical_history))))

\* Variant that looks at the MELD score before the UNOS status.
determineUrgencyLevelMeldFirst(recipient, organ) ==
    IF organ = "liver" /\ Truthy(recipient.meld_score)
       /\ Val(recipient.meld_score) >= 30
    THEN "critical"
    ELSE IF (organ = "heart" \/ organ = "liver") /\ recipient.unos_status = Some("1A")
    THEN "critical"
    ELSE IF (organ = "heart" \/ organ = "liver") /\ recipient.unos_status = Some("1B")
    THEN "urgent"
    ELSE IF organ = "liver" /\ Truthy(recipient.meld_score)
            /\ Val(recipient.meld_score) >= 20
    THEN "urgent"
    ELSE IF recipient.urgency_score >= 8 THEN "critical"
    ELSE IF recipient.urgency_score >= 5 THEN "urgent"
    ELSE "routine"

determineUrgencyLevel(recipient, organ) ==
    IF (organ = "heart" \/ organ = "liver") /\ recipient.unos_status = Some("1A")
    THEN "critical"
    ELSE IF (organ = "heart" \/ organ = "liver") /\ recipient.unos_status = Some("1B")
    THEN "urgent"
    ELSE IF organ = "liver" /\ Truthy(recipient.meld_score)
            /\ Val(recipient.meld_score) >= 30
    THEN "critical"
    ELSE IF organ = "liver" /\ Truthy(recipient.meld_score)
            /\ Val(recipient.meld_score) >= 20
    THEN "urgent"
    ELSE IF recipient.urgency_score >= 8 THEN "critical"
    ELSE IF recipient.urgency_score >= 5 THEN "urgent"
    ELSE "routine"

\* Math.min(recipient.urgency_score / 10 * 15, 15)
urgencyBonusOf(recipient) == RMin(Rat(recipient.urgency_score * 15, 10), RInt(15))

\* The switch over the organ in calculateMatch.
organSpecific(donor, recipient, organ) ==
    CASE organ = "heart"  -> calculateHeartMatchFactors(donor, recipient)
      [] organ = "liver"  -> calculateLiverMatchFactors(donor, recipient)
      [] organ = "kidney" -> calculateKidneyMatchFactors(donor, recipient)

\* The object calculateMatch returns.
matchResultOf(recipient, matchScore, risk, urgency_level, blood, urgencyBonus, block, remaining_viability_hours) ==
    [recipient |-> recipient,
     match_score |-> Rat(MathRound(RMul(matchScore, RInt(100))), 100),
     risk_level |-> risk.risk_level,
     risk_percentage |-> risk.risk_percentage,
     urgency_level |-> urgency_level,
     compatibility_factors |->
         [blood_compatibility |-> blood,
          hla_compatibility |-> block.hla,
          age_compatibility |-> TRUE,
          size_compatibility |-> block.size,
          gender_compatibility |-> block.gender,
          urgency_bonus |-> urgencyBonus],
     viability_window_hours |-> remaining_viability_hours]

\* calculateMatch once matchScore is summed up.
matchOfScore(donor, recipient, organ, riskClock, remainingClock, blood, urgencyBonus, block, matchScore) ==
    matchResultOf(recipient, matchScore,
                  calculateRisk(donor, recipient, organ, matchScore, riskClock),
                  determineUrgencyLevel(recipient, organ),
                  blood, urgencyBonus, block,
                  getRemainingIschemiaHours(donor, organ, remainingClock))

\* matchScore = (blood ? 30 : 0) + urgencyBonus + organSpecificScore
matchOfFactors(donor, recipient, organ, riskClock, remainingClock, blood, urgencyBonus, block) ==
    matchOfScore(donor, recipient, organ, riskClock, remainingClock, blood,
                 urgencyBonus, block,
                 RAdd(RAdd(RInt(IF blood THEN 30 ELSE 0), urgencyBonus), block.score))

\* The MatchResult of one pair.  riskClock is the Date.now() read inside
\* calculateRisk, remainingClock the one read by getRemainingIschemiaHours.
calculateMatch(donor, recipient, organ, riskClock, remainingClock) ==
    matchOfFactors(donor, recipient, organ, riskClock, remainingClock,
                   isBloodCompatible(donor.blood_type, recipient.blood_type),
                   urgencyBonusOf(recipient),
                   organSpecific(donor, recipient, organ))

(***************************************************************************)
(* findMatches: the synchronous entry, the scoring loop and the sort.      *)
(***************************************************************************)
NoReason == [kind |-> "null", age |-> 0, organ |-> "", keyword |-> <<>>]

\* !donor.organs_available || donor.organs_available.length === 0
noOrgans(donor) ==
    IsNull(donor.organs_available) \/ Val(donor.organs_available) = <<>>

\* donor.organs_available[0]
firstOrgan(donor) == Val(donor.organs_available)[1]

\* The throw of line 103, or the result of the filter.
afterViable(donorEligibility, filtered) ==
    IF ~donorEligibility.eligible
    THEN [kind |-> "ineligible", reason |-> donorEligibility.reason, kept |-> <<>>]
    ELSE IF filtered.threw
    THEN [kind |-> "fault", reason |-> NoReason, kept |-> <<>>]
    ELSE [kind |-> "scoring", reason |-> NoReason, kept |-> filtered.kept]

\* Variant that checks the donor's eligibility before the viability window.
gatesForEligibilityFirst(donor, recipients, organ, clock) ==
    IF ~isDonorEligible(donor, organ).eligible
    THEN [kind |-> "ineligible", reason |-> isDonorEligible(donor, organ).reason,
          kept |-> <<>>]
    ELSE IF ~IsNull(donor.cold_ischemia_time_hours)
            /\ ~isOrganViableNow(donor, organ, clock)
    THEN [kind |-> "returned", reason |-> NoReason, kept |-> <<>>]
    ELSE afterViable(isDonorEligible(donor, organ),
                     filterFrom(donor, recipients, organ, 1))

\* Lines 94-142 for the donor's first organ.
gatesFor(donor, recipients, organ, clock) ==
    IF ~IsNull(donor.cold_ischemia_time_hours) /\ ~isOrganViableNow(donor, organ, clock)
    THEN [kind |-> "returned", reason |-> NoReason, kept |-> <<>>]
    ELSE afterViable(isDonorEligible(donor, organ),
                     filterFrom(donor, recipients, organ, 1))

\* Lines 88-142: the donor gates in their order, then the recipient filter.
\* clock is the Date.now() read by the viability gate.
\* Variant that reads organs_available[0] before the check for a missing list.
findMatchesEntryEarlyRead(donor, recipients, clock) ==
    IF IsNull(donor.organs_available)
    THEN [kind |-> "fault", reason |-> NoReason, kept |-> <<>>]
    ELSE IF noOrgans(donor)
    THEN [kind |-> "returned", reason |-> NoReason, kept |-> <<>>]
    ELSE gatesFor(donor, recipients, firstOrgan(donor), clock)

findMatchesEntry(donor, recipients, clock) ==
    IF noOrgans(donor)
    THEN [kind |-> "returned", reason |-> NoReason, kept |-> <<>>]
    ELSE gatesFor(donor, recipients, firstOrgan(donor), clock)

\* Variant with the threshold at half of the scale.
aboveThresholdHalf(matchResult) == RLt(RInt(50), matchResult.match_score)

\* if (matchResult.match_score > 30) matches.push(matchResult)
aboveThreshold(matchResult) == RLt(RInt(30), matchResult.match_score)

urgencyOrder(level) ==
    CASE level = "critical" -> 3 [] level = "urgent" -> 2 [] level = "routine" -> 1

\* The sort comparator: negative when a goes before b.
\* Variant that compares the scores only.
compareMatchesByScore(a, b) == RSub(b.match_score, a.match_score).n

compareMatches(a, b) ==
    IF a.urgency_level # b.urgency_level
    THEN urgencyOrder(b.urgency_level) - urgencyOrder(a.urgency_level)
    ELSE RSub(b.match_score, a.match_score).n

RECURSIVE insertSorted(_, _)
\* x inserted after the last element that does not have to follow it.
insertSorted(sorted, x) ==
    IF sorted = <<>> THEN <<x>>
    ELSE IF compareMatches(sorted[Len(sorted)], x) <= 0
    THEN Append(sorted, x)
    ELSE Append(insertSorted(SubSeq(sorted, 1, Len(sorted) - 1), x),
                sorted[Len(sorted)])

RECURSIVE sortMatches(_)
\* Array.prototype.sort with compareMatches (a stable sort).
sortMatches(ms) ==
    IF ms = <<>> THEN <<>>
    ELSE insertSorted(sortMatches(SubSeq(ms, 1, Len(ms) - 1)), ms[Len(ms)])

(***************************************************************************)
(* Input records: donors, recipients and pools the calls are made with.    *)
(***************************************************************************)
A0201 == <<"A", "*", "0", "2", ":", "0", "1">>
A0301 == <<"A", "*", "0", "3", ":", "0", "1">>
A1101 == <<"A", "*", "1", "1", ":", "0", "1">>
B0702 == <<"B", "*", "0", "7", ":", "0", "2">>
B0801 == <<"B", "*", "0", "8", ":", "0", "1">>
B4402 == <<"B", "*", "4", "4", ":", "0", "2">>
DRB11501 == <<"D", "R", "B", "1", "*", "1", "5", ":", "0", "1">>
DRB10301 == <<"D", "R", "B", "1", "*", "0", "3", ":", "0", "1">>
DRB10401 == <<"D", "R", "B", "1", "*", "0", "4", ":", "0", "1">>
\* Antigen-level and untidy spellings.
A2 == <<"A", "2">>
B7 == <<"B", "7">>
a0201padded == <<" ", "a", "*", "0", "2", ":", "0", "1", " ">>
Blank == <<" ">>

Typing(a, b, dr) == Some(("HLA-A" :> a) @@ ("HLA-B" :> b) @@ ("HLA-DR" :> dr))

HlaFull == Typing(<<A0201, A0301>>, <<B0702, B0801>>, <<DRB11501, DRB10301>>)
\* One of two A antigens and the only B antigen shared with HlaFull, no DR data.
HlaPartial == Typing(<<a0201padded, A1101>>, <<B7, Blank>>, <<>>)
\* Nothing shared with HlaFull.
HlaOther == Typing(<<A1101>>, <<B4402>>, <<DRB10401>>)
\* Only a B locus; the other loci are not in the record.
HlaBOnly == Some("HLA-B" :> <<B0801>>)

Donor(organs, age, gender, blood, hla, weight, mh, cod, cit, times) ==
    [organs_available |-> organs, age |-> age, gender |-> gender,
     blood_type |-> blood, hla_typing |-> hla, weight_kg |-> weight,
     medical_history |-> mh, cause_of_death |-> cod,
     cold_ischemia_time_hours |-> cit,
     ischemia_start_at |-> times[1], updated_at |-> times[2],
     created_at |-> times[3]]

Recipient(organ, age, gender, blood, hla, weight, mh, urgency, meld, unos, status, unacceptable) ==
    [organ_needed |-> organ, age |-> age, gender |-> gender, blood_type |-> blood,
     hla_typing |-> hla, weight_kg |-> weight, medical_history |-> mh,
     urgency_score |-> urgency, meld_score |-> meld, unos_status |-> unos,
     status |-> status, unacceptable_antigens |-> unacceptable]

Trauma == Some(<<"head", "trauma">>)
NoHistory == Some(<<>>)
\* Record timestamps: no explicit ischemia start, updated and created at tick 0.
Times0 == <<None, Some(0), Some(0)>>

DonorBase(organ) ==
    Donor(Some(<<organ>>), 40, "male", "O-", HlaFull, Some(70), NoHistory, Trauma,
          None, Times0)

RecipientBase(organ) ==
    Recipient(organ, 45, "male", "AB+", HlaFull, Some(70), NoHistory, 5, None, None,
              "active", None)

\* Donors that exercise the donor-level gates.
DonorsGate ==
    {Donor(organs, age, "male", "O-", HlaFull, Some(70), mh, cod, cit, Times0) :
        organs \in {None, Some(<<>>), Some(<<"kidney">>), Some(<<"heart", "kidney">>),
                    Some(<<"liver", "heart">>)},
        age \in {17, 40, 68, 80},
        mh \in {NoHistory, None, Some(<<"Diabetes">>), Some(<<"polycystic", "kidney">>)},
        cod \in {Trauma, None, Some(<<"disease">>)},
        cit \in {None, Some(0)}}

\* One recipient per organ, all of them acceptable to DonorBase of their organ.
PoolGate == <<RecipientBase("kidney"), RecipientBase("heart"), RecipientBase("liver")>>

\* Donors with an explicit cold-ischemia window.
DonorsTime ==
    {Donor(Some(<<organ>>), age, "male", "O-", HlaFull, Some(70), NoHistory, Trauma,
           Some(cit), times) :
        organ \in {"kidney", "heart"},
        age \in {40, 80},
        cit \in {0, 1, 2},
        times \in {Times0, <<Some(2), Some(0), Some(0)>>, <<None, None, Some(1)>>,
                   <<None, None, None>>}}

RecipientOlder(organ) ==
    Recipient(organ, 48, "female", "AB+", HlaPartial, Some(60), Some(<<"smoker">>), 9,
              None, None, "active", None)

PoolsTime(organ) ==
    {<<RecipientBase(organ)>>, <<RecipientBase(organ), RecipientOlder(organ)>>}

\* Clock values at the call: window start, one tick before one hour, one hour,
\* two hours.
ClockChoices == {0, TicksPerHour - 1, TicksPerHour, 2 * TicksPerHour}

\* Eligible donors without an explicit window, varying what the scorer reads.
DonorsScore ==
    {Donor(Some(<<organ>>), 40, gw[1], "O-", HlaFull, gw[2], NoHistory, Trauma, None,
           Times0) :
        organ \in OrganTypes,
        gw \in {<<"male", Some(70)>>, <<"male", None>>, <<"female", Some(70)>>}}

\* Older donors of another blood group with a smoking history and little or
\* no HLA data.
DonorsSparse ==
    {Donor(Some(<<organ>>), 62, "male", "A+", hla, Some(70), Some(<<"smoker">>), Trauma,
           None, Times0) :
        organ \in OrganTypes, hla \in {None, HlaBOnly}}

\* An old donor with a smoking history, and a recipient that collects most
\* of the risk terms without being excluded.
DonorsRisky ==
    {Donor(Some(<<organ>>), 62, "male", "O-", HlaFull, Some(70), Some(<<"smoker">>),
           Trauma, cit, Times0) :
        organ \in OrganTypes, cit \in {None, Some(1)}}

RecipientRisky(organ) ==
    Recipient(organ, 66, "female", "AB+", HlaOther, Some(30),
              Some(<<"Diabetes", "Hypertension", "sepsis", "cad", "smoker">>), 1, Some(30),
              Some("1A"), "active", None)

\* Recipients that differ from RecipientBase in one respect.  The fields follow
\* the recipients table: medical_history, urgency_score, weight_kg, meld_score
\* and unos_status are nullable (a null urgency_score counts as 0 in the
\* arithmetic and in the comparisons, and is written 0); "undefined" is the
\* blood type of a record that has none.
RecipientsVaried(organ) ==
    LET b == RecipientBase(organ)
    IN  {[b EXCEPT !.age = v] : v \in {45, 52, 61, 66, 72, 78}}
        \cup {[b EXCEPT !.blood_type = v] : v \in {"O+", "A+", "undefined"}}
        \cup {[b EXCEPT !.organ_needed = v] : v \in OrganTypes}
        \cup {[b EXCEPT !.status = v] : v \in {"removed", "transplanted"}}
        \cup {[b EXCEPT !.medical_history = v] :
                 v \in {None, Some(<<"Cancer">>), Some(<<"HIV">>),
                        Some(<<"chronic", "infection">>),
                        Some(<<"peripheral", "vascular", "disease">>),
                        Some(<<"smoker">>),
                        Some(<<"Hypertension">>)}}
        \cup {[b EXCEPT !.unacceptable_antigens = v] :
                 v \in {Some(<<>>), Some(<<A2>>), Some(<<B4402>>),
                        Some(<<Blank, DRB11501>>)}}
        \cup {[b EXCEPT !.meld_score = Some(m)] : m \in {6, 20, 26, 35, 40}}
        \cup {[b EXCEPT !.meld_score = Some(m), !.unos_status = u] :
                 m \in {20, 35}, u \in {Some("1A"), Some("1B")}}
        \cup {[b EXCEPT !.urgency_score = v] : v \in {1, 4, 8, 10}}
        \cup {[b EXCEPT !.weight_kg = v] : v \in {Some(35), Some(50), Some(100)}}
        \cup {[b EXCEPT !.gender = "female"]}
        \cup {[b EXCEPT !.urgency_score = u, !.hla_typing = hw[1], !.weight_kg = hw[2]] :
                 u \in {0, 10},
                 hw \in {<<None, Some(30)>>, <<None, Some(140)>>, <<HlaPartial, None>>,
                         <<HlaOther, Some(30)>>, <<HlaOther, Some(140)>>}}

\* Recipients of the exhaustively enumerated pools.
RecipientsCore(organ) ==
    LET b == RecipientBase(organ)
    IN  {b,
         [b EXCEPT !.urgency_score = 9, !.hla_typing = HlaOther],
         [b EXCEPT !.medical_history = None]}

RECURSIVE SeqsOfLen(_, _)
SeqsOfLen(S, n) ==
    IF n = 0 THEN {<<>>}
    ELSE {Append(q, x) : q \in SeqsOfLen(S, n - 1), x \in S}

PoolsCore(organ) ==
    UNION {SeqsOfLen(RecipientsCore(organ), n) : n \in 2..MaxPool}

\* Entries as they are typed into an allele list: with the HLA- prefix, and
\* one that holds no antigen group at all.
HLA_B0702 == HLA_ \o B0702
HLA_A0201 == HLA_ \o A0201
HLA_DRB11501 == HLA_ \o DRB11501
NT == <<"N", "T">>

\* One allele per locus, all shared with HlaFull.
HlaSingle == Typing(<<A0201>>, <<B0702>>, <<DRB11501>>)
\* HlaSingle with an entry without an antigen group at HLA-A.
HlaSingleNT == Typing(<<A0201, NT>>, <<B0702>>, <<DRB11501>>)
\* No B locus data.
HlaNoB == Typing(<<A0201, A0301>>, <<>>, <<DRB11501, DRB10401>>)

DonorsHla ==
    {[DonorBase(organ) EXCEPT !.hla_typing = h] :
        organ \in OrganTypes, h \in {HlaFull, HlaOther, HlaSingle, HlaSingleNT, HlaNoB}}

\* Recipients for the HLA score and the crossmatch.
RecipientsHla(organ) ==
    {[RecipientBase(organ) EXCEPT !.hla_typing = h] :
        h \in {HlaFull, HlaOther, HlaSingle, HlaPartial}}
    \cup {[RecipientBase(organ) EXCEPT !.unacceptable_antigens = ua] :
             ua \in {Some(<<>>), Some(<<B7>>), Some(<<HLA_B0702>>), Some(<<NT>>),
                     Some(<<HLA_A0201>>), Some(<<HLA_DRB11501, Blank>>)}}

\* Clock values long after the donor record was created: 7 and 25 hours.
ClockLate == {7 * TicksPerHour, 25 * TicksPerHour}

\* A pool listed in the reverse of the order the results are returned in.
PoolOrder(organ) ==
    LET b == RecipientBase(organ)
    IN  <<[b EXCEPT !.urgency_score = 2, !.hla_typing = HlaPartial,
                    !.unos_status = Some("1B")],
          b,
          [b EXCEPT !.urgency_score = 9, !.hla_typing = HlaOther]>>

\* The calls of the model: <<donor, recipient pool, clock at the call>>.
Scenarios ==
    {<<d, PoolGate, 0>> : d \in DonorsGate}
    \cup UNION {{<<d, pool, c>> : pool \in PoolsTime(firstOrgan(d)), c \in ClockChoices} :
                   d \in DonorsTime}
    \cup UNION {{<<d, <<r>>, 0>> : r \in RecipientsVaried(firstOrgan(d))} :
                   d \in DonorsScore}
    \cup UNION {{<<d, <<r>>, 0>> : r \in RecipientsCore(firstOrgan(d))} :
                   d \in DonorsSparse}
    \cup UNION {{<<DonorBase(o), pool, 0>> : pool \in PoolsCore(o)} : o \in OrganTypes}
    \cup {<<DonorBase(o), PoolOrder(o), 0>> : o \in OrganTypes}
    \cup UNION {{<<d, <<r>>, 0>> : r \in RecipientsHla(firstOrgan(d))} : d \in DonorsHla}
    \cup {<<DonorBase(o), <<RecipientBase(o), RecipientOlder(o)>>, c>> :
             o \in OrganTypes, c \in ClockLate}
    \cup {<<d, <<RecipientRisky(firstOrgan(d))>>, c>> :
             d \in DonorsRisky, c \in ClockChoices}
    \cup {<<[DonorBase("kidney") EXCEPT !.blood_type = db],
            <<[RecipientBase("kidney") EXCEPT !.blood_type = rb]>>, 0>> :
             db \in BloodTypes, rb \in BloodTypes}

(***************************************************************************)
(* The state machine: one donor selection in the dashboard and the         *)
(* findMatches call it makes, under a running clock.                       *)
(***************************************************************************)
VARIABLES
    now,          \* Date.now(), in ticks
    ticks,        \* clock ticks since the call was made
    donor,        \* argument of the call
    recipients,   \* argument of the call
    pc,           \* "call", "risk", "remaining", "sort", "done"
    gateClock,    \* the clock read by the viability gate (None before)
    compatibleRecipients,
    idx,          \* position of the for-of loop in compatibleRecipients
    riskClock,    \* the clock read by calculateRisk for the current recipient
    matches,      \* the local array matches
    outcome,      \* how the call ended: [kind, reason, value]
    dashboard,    \* MatchingDashboard state: [matches, matchingLoading]
    calls,        \* the activations of two findMatches calls in progress at once
    store         \* the database tables and the sessions of the users working on them

vars == <<now, ticks, donor, recipients, pc, gateClock, compatibleRecipients, idx,
          riskClock, matches, outcome, dashboard, calls, store>>

\* handleDonorSelect once apiService.findMatches has settled: setMatches with
\* the results, or with [] in the catch block; setMatchingLoading(false).
handleDonorSelectSettled(result) ==
    [matches |-> IF result.kind = "returned" THEN result.value ELSE <<>>,
     matchingLoading |-> FALSE]

\* What MatchResults renders for a selected donor.  Each row of the list
\* evaluates match.compatibility_factors.time_on_list_bonus.toFixed(1), which
\* throws a TypeError when the field is undefined.
MatchResultsView(state) ==
    IF state.matchingLoading THEN "Finding Matches"
    ELSE IF Len(state.matches) = 0 THEN "No Compatible Matches"
    ELSE IF \E i \in 1..Len(state.matches) :
                "time_on_list_bonus" \notin DOMAIN state.matches[i].compatibility_factors
    THEN "TypeError"
    ELSE "match list"

Pending == [kind |-> "pending", reason |-> NoReason, value |-> <<>>]

Init ==
    /\ \E sc \in Scenarios :
          /\ donor = sc[1]
          /\ recipients = sc[2]
          /\ now = sc[3]
    /\ ticks = 0
    /\ pc = "call"
    /\ gateClock = None
    /\ compatibleRecipients = <<>>
    /\ idx = 1
    /\ riskClock = 0
    /\ matches = <<>>
    /\ outcome = Pending
    /\ dashboard = [matches |-> <<>>, matchingLoading |-> TRUE]
    /\ calls = <<>>
    /\ store = <<>>

\* Wall-clock time passes while the call is in progress.
Tick ==
    /\ pc # "done"
    /\ ticks < MaxTicks
    /\ now' = now + 1
    /\ ticks' = ticks + 1
    /\ UNCHANGED <<store, donor, recipients, pc, gateClock, compatibleRecipients, idx,
                   riskClock, matches, outcome, dashboard, calls>>

\* findMatches up to the for-of loop (lines 88-142).
Enter ==
    /\ pc = "call"
    /\ LET e == findMatchesEntry(donor, recipients, now)
       IN  /\ gateClock' = Some(now)
           /\ compatibleRecipients' = e.kept
           /\ IF e.kind = "scoring"
              THEN /\ pc' = IF e.kept = <<>> THEN "sort" ELSE "risk"
                   /\ outcome' = outcome
                   /\ dashboard' = dashboard
              ELSE /\ pc' = "done"
                   /\ outcome' = [kind |-> e.kind, reason |-> e.reason, value |-> <<>>]
                   /\ dashboard' = handleDonorSelectSettled(outcome')
    /\ UNCHANGED <<store, now, ticks, donor, recipients, idx, riskClock, matches, calls>>

\* calculateMatch up to and including calculateRisk, which reads the clock.
ScoreRisk ==
    /\ pc = "risk"
    /\ riskClock' = now
    /\ pc' = "remaining"
    /\ UNCHANGED <<store, now, ticks, donor, recipients, gateClock, compatibleRecipients, idx,
                   matches, outcome, dashboard, calls>>

\* The rest of calculateMatch (getRemainingIschemiaHours reads the clock again),
\* the threshold and the push.
ScoreRemaining ==
    /\ pc = "remaining"
    /\ LET matchResult == calculateMatch(donor, compatibleRecipients[idx],
                                         firstOrgan(donor), riskClock, now)
       IN  matches' = IF aboveThreshold(matchResult)
                      THEN Append(matches, matchResult) ELSE matches
    /\ idx' = idx + 1
    /\ riskClock' = 0
    /\ pc' = IF idx < Len(compatibleRecipients) THEN "risk" ELSE "sort"
    /\ UNCHANGED <<store, now, ticks, donor, recipients, gateClock, compatibleRecipients,
                   outcome, dashboard, calls>>

\* return matches.sort(...)
Return ==
    /\ pc = "sort"
    /\ outcome' = [kind |-> "returned", reason |-> NoReason,
                   value |-> sortMatches(matches)]
    /\ dashboard' = handleDonorSelectSettled(outcome')
    /\ pc' = "done"
    /\ UNCHANGED <<store, now, ticks, donor, recipients, gateClock, compatibleRecipients, idx,
                   riskClock, matches, calls>>

Next == Tick \/ Enter \/ ScoreRisk \/ ScoreRemaining \/ Return

Spec == Init /\ [][Next]_vars

(***************************************************************************)
(* Two findMatches calls in progress at once.  Each call has its own       *)
(* activation: the arguments and the locals of findMatches.  The steps of  *)
(* the two calls interleave at the awaits of the scoring loop.             *)
(***************************************************************************)
\* Most clock ticks that pass while the two calls are in progress.
MaxPairTicks == 1

\* The activation of a call that has just been made.  reads keeps, for each
\* scored recipient, the two clock values calculateMatch has read.
Activation(d, pool) ==
    [donor |-> d, recipients |-> pool, pc |-> "call", gateClock |-> None,
     compatibleRecipients |-> <<>>, idx |-> 1, riskClock |-> 0, matches |-> <<>>,
     outcome |-> Pending, reads |-> <<>>]

\* The activation whose array `matches` the call c pushes to and sorts: its
\* own (const matches: MatchResult[] = [] is a local of findMatches).
\* Variant in which the array is a member of the service, shared by all calls.
arrayOfShared(c) == 1

arrayOf(c) == c

\* Donors and pools of the calls made at once.
PairScenarios ==
    {<<[DonorBase("kidney") EXCEPT !.cold_ischemia_time_hours = Some(2)],
       <<RecipientBase("kidney"), RecipientOlder("kidney")>> >>,
     <<DonorBase("heart"), <<RecipientOlder("heart"), RecipientBase("heart")>> >>,
     <<[DonorBase("kidney") EXCEPT !.age = 80], <<RecipientBase("kidney")>> >>,
     <<DonorBase("liver"), <<RecipientBase("liver")>> >>}

InitPair ==
    /\ \E a \in PairScenarios, b \in PairScenarios :
          /\ a[1] # b[1]
          /\ calls = <<Activation(a[1], a[2]), Activation(b[1], b[2])>>
    /\ now \in {0, 2 * TicksPerHour - 1}
    /\ ticks = 0
    /\ donor = DonorBase("kidney")
    /\ recipients = <<>>
    /\ pc = "done"
    /\ gateClock = None
    /\ compatibleRecipients = <<>>
    /\ idx = 1
    /\ riskClock = 0
    /\ matches = <<>>
    /\ outcome = Pending
    /\ dashboard = [matches |-> <<>>, matchingLoading |-> FALSE]
    /\ store = <<>>

\* The variables of the single call, which the two calls do not touch.
single == <<donor, recipients, pc, gateClock, compatibleRecipients, idx, riskClock,
            matches, outcome, dashboard>>

TickPair ==
    /\ \E c \in 1..2 : calls[c].pc # "done"
    /\ ticks < MaxPairTicks
    /\ now' = now + 1
    /\ ticks' = ticks + 1
    /\ UNCHANGED <<store, single, calls>>

\* The activation after lines 88-142.
entered(f, e, clock) ==
    [f EXCEPT !.gateClock = Some(clock),
              !.compatibleRecipients = e.kept,
              !.pc = IF e.kind # "scoring" THEN "done"
                     ELSE IF e.kept = <<>> THEN "sort" ELSE "risk",
              !.outcome = IF e.kind # "scoring"
                          THEN [kind |-> e.kind, reason |-> e.reason, value |-> <<>>]
                          ELSE @]

EnterPair(c) ==
    /\ calls[c].pc = "call"
    /\ calls' = [calls EXCEPT ![c] =
                    entered(@, findMatchesEntry(@.donor, @.recipients, now), now)]
    /\ UNCHANGED <<store, now, ticks, single>>

ScoreRiskPair(c) ==
    /\ calls[c].pc = "risk"
    /\ calls' = [calls EXCEPT ![c].riskClock = now, ![c].pc = "remaining"]
    /\ UNCHANGED <<store, now, ticks, single>>

\* The push of the loop body into the array of the call.
pushed(all, c, matchResult) ==
    IF aboveThreshold(matchResult)
    THEN [all EXCEPT ![arrayOf(c)].matches = Append(@, matchResult)]
    ELSE all

\* The loop variables of the call after the loop body.
advanced(all, c, clock) ==
    [all EXCEPT ![c].reads = Append(@, <<all[c].riskClock, clock>>),
                ![c].idx = @ + 1,
                ![c].riskClock = 0,
                ![c].pc = IF all[c].idx < Len(all[c].compatibleRecipients)
                          THEN "risk" ELSE "sort"]

ScoreRemainingPair(c) ==
    /\ calls[c].pc = "remaining"
    /\ calls' = advanced(pushed(calls, c,
                                calculateMatch(calls[c].donor,
                                               calls[c].compatibleRecipients[calls[c].idx],
                                               firstOrgan(calls[c].donor),
                                               calls[c].riskClock, now)),
                         c, now)
    /\ UNCHANGED <<store, now, ticks, single>>

ReturnPair(c) ==
    /\ calls[c].pc = "sort"
    /\ calls' = [calls EXCEPT ![c].pc = "done",
                              ![c].outcome =
                                  [kind |-> "returned", reason |-> NoReason,
                                   value |-> sortMatches(calls[arrayOf(c)].matches)]]
    /\ UNCHANGED <<store, now, ticks, single>>

NextPair ==
    \/ TickPair
    \/ \E c \in 1..2 : EnterPair(c)
    \/ \E c \in 1..2 : ScoreRiskPair(c)
    \/ \E c \in 1..2 : ScoreRemainingPair(c)
    \/ \E c \in 1..2 : ReturnPair(c)

SpecPair == InitPair /\ [][NextPair]_vars

(***************************************************************************)
(* Properties.                                                             *)
(***************************************************************************)
Done == pc = "done"
Returned == pc = "done" /\ outcome.kind = "returned"
\* The list the call returned (empty for a call that did not return one).
Results == outcome.value

\* The cold-ischemia limit is explicit.
ExplicitCIT == ~IsNull(donor.cold_ischemia_time_hours)

\* The organ the call is about; any organ for a donor that has none (the
\* viability operators do not read it when the limit is explicit).
CallOrgan == IF noOrgans(donor) THEN "kidney" ELSE firstOrgan(donor)

\* C1: every MatchResult pushed or returned has 30 < match_score <= 100,
\* 0 <= risk_percentage <= 80 and an HLA ratio in [0, 1].
InBounds(m) ==
    /\ RLt(RInt(30), m.match_score) /\ RLe(m.match_score, RInt(100))
    /\ RLe(RInt(0), m.risk_percentage) /\ RLe(m.risk_percentage, RInt(80))
    /\ RLe(RInt(0), m.compatibility_factors.hla_compatibility)
    /\ RLe(m.compatibility_factors.hla_compatibility, RInt(1))

C1_ResultBounds ==
    /\ \A i \in 1..Len(matches) : InBounds(matches[i])
    /\ \A i \in 1..Len(Results) : InBounds(Results[i])

\* A returned result whose risk sum exceeded the cap of 80.
C1_Witness ==
    /\ Returned
    /\ \E i \in 1..Len(Results) :
          /\ Results[i].risk_percentage = RInt(80)
          /\ Results[i].risk_level = "high"
          /\ RLt(RInt(30), Results[i].match_score)

\* C2: the returned list is ordered by urgency tier (critical, urgent, routine)
\* and, within a tier, by non-increasing match score.
Tier(level) == IF level = "critical" THEN 3 ELSE IF level = "urgent" THEN 2 ELSE 1

C2_Ordering ==
    Returned =>
        \A i, j \in 1..Len(Results) :
            i < j =>
                /\ Tier(Results[i].urgency_level) >= Tier(Results[j].urgency_level)
                /\ Results[i].urgency_level = Results[j].urgency_level
                       => RLe(Results[j].match_score, Results[i].match_score)

\* A returned list that the sort reordered, with two tiers and two results of
\* one tier with different scores.
C2_Witness ==
    /\ Returned
    /\ Results # matches
    /\ \E i, j \in 1..Len(Results) :
          Results[i].urgency_level # Results[j].urgency_level
    /\ \E i, j \in 1..Len(Results) :
          /\ Results[i].urgency_level = Results[j].urgency_level
          /\ Results[i].match_score # Results[j].match_score

\* The maximum age difference of an organ, as the claim states it.
ClaimMaxDiff(organ) ==
    CASE organ = "kidney" -> 20 [] organ = "heart" -> 10 [] organ = "liver" -> 25

\* C3: every recipient of a result is in the pool and passes the six gates:
\* first organ, active, ABO, recipient eligibility, crossmatch, age difference.
PassesGates(r) ==
    /\ r.organ_needed = firstOrgan(donor)
    /\ r.status = "active"
    /\ r.blood_type \in BLOOD_COMPATIBILITY[donor.blood_type]
    /\ ~isRecipientEligible(r, firstOrgan(donor)).threw
    /\ isRecipientEligible(r, firstOrgan(donor)).eligible
    /\ ~hasUnacceptableAntigenConflict(donor.hla_typing, r, firstOrgan(donor))
    /\ Abs(donor.age - r.age) <= ClaimMaxDiff(firstOrgan(donor))

C4_NoOrgans ==
    (Done /\ noOrgans(donor)) =>
        /\ outcome.kind = "returned"
        /\ Results = <<>>

\* A donor without an organ list who is also too old and has an elapsed window.
C4_Witness ==
    /\ Done
    /\ IsNull(donor.organs_available)
    /\ donor.age = 80
    /\ ExplicitCIT
    /\ recipients # <<>>
    /\ outcome.kind = "returned"

\* Hours elapsed at the viability gate since the ischemia start.
ElapsedAtGate == getElapsedHoursSince(getIschemiaStartAt(donor), Val(gateClock))

\* C5: an explicit window that has elapsed at call time gives remaining hours 0,
\* not viable, and the empty list without a failure.
C5_Expired ==
    (Done /\ ExplicitCIT
       /\ RLe(RInt(Val(donor.cold_ischemia_time_hours)), ElapsedAtGate)) =>
        /\ getRemainingIschemiaHours(donor, CallOrgan, Val(gateClock)) = RInt(0)
        /\ ~isOrganViableNow(donor, CallOrgan, Val(gateClock))
        /\ outcome.kind = "returned"
        /\ Results = <<>>

\* An eligible donor with a one-hour window called exactly one hour after the
\* start, for a pool that holds an acceptable recipient.
C5_Witness ==
    /\ Done
    /\ donor.cold_ischemia_time_hours = Some(1)
    /\ ElapsedAtGate = RInt(1)
    /\ isDonorEligible(donor, firstOrgan(donor)).eligible
    /\ \E k \in 1..Len(recipients) : PassesGates(recipients[k])
    /\ Results = <<>>

\* The donor's age is outside the organ's range, as the claim states it.
ClaimAgeOutside ==
    CASE firstOrgan(donor) = "kidney" -> donor.age < 18 \/ donor.age > 70
      [] firstOrgan(donor) = "heart"  -> donor.age > 65
      [] firstOrgan(donor) = "liver"  -> donor.age < 18 \/ donor.age > 70

\* The exclusion keywords that apply to a donor of the organ.
DonorKeywords(organ) ==
    {MEDICAL_EXCLUSIONS_donor_general[i] :
        i \in 1..Len(MEDICAL_EXCLUSIONS_donor_general)}
    \cup {MEDICAL_EXCLUSIONS_donor[organ][i] :
             i \in 1..Len(MEDICAL_EXCLUSIONS_donor[organ])}

ClaimKeywordPresent ==
    \E kw \in DonorKeywords(firstOrgan(donor)) : includes(donorHistoryText(donor), kw)

\* C6: a donor with an organ that is not expired, whose age is out of range or
\* whose history holds an exclusion keyword, gets the ineligibility failure
\* with the reason (the age, or a keyword the history holds).
C6_Ineligible ==
    (/\ Done
     /\ ~noOrgans(donor)
     /\ (~ExplicitCIT \/ isOrganViableNow(donor, firstOrgan(donor), Val(gateClock)))
     /\ (ClaimAgeOutside \/ ClaimKeywordPresent)) =>
        /\ outcome.kind = "ineligible"
        /\ Results = <<>>
        /\ outcome.reason.organ = firstOrgan(donor)
        /\ IF ClaimAgeOutside
           THEN outcome.reason.kind = "age" /\ outcome.reason.age = donor.age
           ELSE /\ outcome.reason.kind = "keyword"
                /\ outcome.reason.keyword \in DonorKeywords(firstOrgan(donor))
                /\ includes(donorHistoryText(donor), outcome.reason.keyword)

\* The kidney donor of age 80 is rejected for the age.
C6_Witness ==
    /\ Done
    /\ ~noOrgans(donor)
    /\ firstOrgan(donor) = "kidney"
    /\ donor.age = 80
    /\ outcome.kind = "ineligible"
    /\ outcome.reason.kind = "age"

\* A keyword that spans medical_history and cause_of_death is the reason.
C6_WitnessKeyword ==
    /\ Done
    /\ outcome.kind = "ineligible"
    /\ outcome.reason.keyword = <<"kidney", "disease">>
    /\ donor.cause_of_death = Some(<<"disease">>)

\* A recipient record with a missing field.
Malformed(r) ==
    IsNull(r.medical_history) \/ r.blood_type = "undefined" \/ IsNull(r.hla_typing)

\* C7: a fault on a malformed recipient never aborts the call: the call of an
\* eligible, viable donor returns a list, and every well-formed recipient that
\* passes the gates and the threshold is in it.
C7_FaultContained ==
    (Done /\ outcome.kind # "ineligible") =>
        /\ outcome.kind = "returned"
        /\ (/\ ~noOrgans(donor)
            /\ isOrganViableNow(donor, CallOrgan, Val(gateClock))) =>
              \A k \in 1..Len(recipients) :
                  (/\ ~Malformed(recipients[k])
                   /\ PassesGates(recipients[k])
                   /\ RLt(RInt(30),
                          calculateMatch(donor, recipients[k], CallOrgan,
                                         Val(gateClock), Val(gateClock)).match_score)) =>
                      \E i \in 1..Len(Results) : Results[i].recipient = recipients[k]

\* ABO antigens and the Rh factor of a blood type.
AboAntigens(t) ==
    CASE t \in {"O-", "O+"}   -> {}
      [] t \in {"A-", "A+"}   -> {"A"}
      [] t \in {"B-", "B+"}   -> {"B"}
      [] t \in {"AB-", "AB+"} -> {"A", "B"}

RhPositive(t) == t \in {"O+", "A+", "B+", "AB+"}

StandardCompatible(d, r) ==
    /\ AboAntigens(d) \subseteq AboAntigens(r)
    /\ RhPositive(d) => RhPositive(r)

\* C8: the ABO check is the standard matrix; O- gives to all, AB+ takes from all.
C8_ABOMatrix ==
    /\ \A d, r \in BloodTypes : isBloodCompatible(d, r) <=> StandardCompatible(d, r)
    /\ \A r \in BloodTypes : isBloodCompatible("O-", r)
    /\ \A d \in BloodTypes : isBloodCompatible(d, "AB+")
    /\ \A i \in 1..Len(Results) :
          StandardCompatible(donor.blood_type, Results[i].recipient.blood_type)

\* The A+ kidney donor and the O+ recipient, otherwise acceptable: excluded.
C8_Witness ==
    /\ Returned
    /\ donor.blood_type = "A+"
    /\ Len(recipients) = 1
    /\ recipients[1].blood_type = "O+"
    /\ PassesGates([recipients[1] EXCEPT !.blood_type = "AB+"])
    /\ Results = <<>>

\* C9: one instant per call: every returned result is the one computed at the
\* clock value of the viability gate, so all report the same remaining hours.
C9_SingleInstant ==
    Returned =>
        /\ \A i \in 1..Len(Results) :
              Results[i] = calculateMatch(donor, Results[i].recipient, firstOrgan(donor),
                                          Val(gateClock), Val(gateClock))
        /\ \A i, j \in 1..Len(Results) :
              Results[i].viability_window_hours = Results[j].viability_window_hours

\* The allele lists of the three kidney loci are non-empty and the same on
\* both sides.
IdenticalTyping(d, r) ==
    /\ ~IsNull(d.hla_typing) /\ ~IsNull(r.hla_typing)
    /\ \A locus \in {"HLA-A", "HLA-B", "HLA-DR"} :
          /\ HlaLocus(d.hla_typing, locus) # <<>>
          /\ HlaLocus(d.hla_typing, locus) = HlaLocus(r.hla_typing, locus)

\* The points of a kidney result that do not come from HLA.
KidneyOtherPoints(m) ==
    RAdd(RInt(30 + (IF m.compatibility_factors.size_compatibility THEN 15 ELSE 0)
                 + (IF m.compatibility_factors.gender_compatibility THEN 5 ELSE 0)),
         m.compatibility_factors.urgency_bonus)

\* C11: a kidney pair with identical non-empty HLA-A, HLA-B and HLA-DR lists has
\* HLA ratio 1 and gets the full 35 HLA points in its score.
C11_IdenticalHla ==
    \A i \in 1..Len(matches) :
        (firstOrgan(donor) = "kidney" /\ IdenticalTyping(donor, matches[i].recipient)) =>
            /\ matches[i].compatibility_factors.hla_compatibility = RInt(1)
            /\ matches[i].match_score = RAdd(KidneyOtherPoints(matches[i]), RInt(35))

\* A returned kidney result of a pair typed with one allele per locus.
C11_Witness ==
    /\ Returned
    /\ ~noOrgans(donor)
    /\ firstOrgan(donor) = "kidney"
    /\ donor.hla_typing = HlaSingle
    /\ Len(Results) = 1
    /\ IdenticalTyping(donor, Results[1].recipient)
    /\ Results[1].compatibility_factors.hla_compatibility = RInt(1)

\* C12: after a donor selection the dashboard state of an ineligible donor is
\* not the state of a successful empty result: it is not the empty match list
\* rendered as "No Compatible Matches".
C12_IneligibleShown ==
    (Done /\ outcome.kind = "ineligible") =>
        /\ dashboard # handleDonorSelectSettled(
                           [kind |-> "returned", reason |-> NoReason, value |-> <<>>])
        /\ MatchResultsView(dashboard) # "No Compatible Matches"

RECURSIVE scoredAlone(_, _, _, _)
\* The results above the threshold of the recipients kept[i..], each computed
\* at the clock values reads[i] by a call that runs alone.
scoredAlone(d, kept, reads, i) ==
    IF i > Len(kept) THEN <<>>
    ELSE LET m == calculateMatch(d, kept[i], firstOrgan(d), reads[i][1], reads[i][2])
         IN  (IF aboveThreshold(m) THEN <<m>> ELSE <<>>)
             \o scoredAlone(d, kept, reads, i + 1)

\* The outcome of the call of an activation when it runs alone and reads the
\* clock values the activation has read.
aloneOutcomeOf(f, e) ==
    IF e.kind # "scoring"
    THEN [kind |-> e.kind, reason |-> e.reason, value |-> <<>>]
    ELSE [kind |-> "returned", reason |-> NoReason,
          value |-> sortMatches(scoredAlone(f.donor, e.kept, f.reads, 1))]

aloneOutcome(f) ==
    aloneOutcomeOf(f, findMatchesEntry(f.donor, f.recipients, Val(f.gateClock)))

\* C13: no state is shared between calls and the inputs are not modified: each
\* of two interleaved calls ends with the outcome it has when it runs alone at
\* the same clock values, and no step changes a call's donor or its pool.
C13_Isolation ==
    /\ [](\A c \in DOMAIN calls :
             calls[c].pc = "done" => calls[c].outcome = aloneOutcome(calls[c]))
    /\ [][\A c \in DOMAIN calls :
             /\ calls'[c].donor = calls[c].donor
             /\ calls'[c].recipients = calls[c].recipients]_vars

\* The first call has returned two results, its last clock read later than
\* the entry of the second call, which is in the middle of its loop.
C13_Witness ==
    /\ calls # <<>>
    /\ calls[1].pc = "done"
    /\ calls[1].outcome.kind = "returned"
    /\ Len(calls[1].outcome.value) = 2
    /\ calls[2].pc = "risk"
    /\ calls[2].idx = 2
    /\ Len(calls[2].matches) = 1
    /\ Val(calls[2].gateClock) < calls[1].reads[2][2]

\* The explicit window of the donor has elapsed at the clock read of the gate.
ElapsedWindow ==
    /\ ~noOrgans(donor)
    /\ ExplicitCIT
    /\ ~isOrganViableNow(donor, firstOrgan(donor), Val(gateClock))

\* C14: the donor gates apply in the order no organs, elapsed explicit window,
\* eligibility: a donor without organs or with an elapsed window gets the empty
\* list even when ineligible, and the ineligibility failure is raised only for a
\* donor that has an organ and is still viable.
C14_GateOrder ==
    Done =>
        /\ (noOrgans(donor) \/ ElapsedWindow) =>
               (outcome.kind = "returned" /\ Results = <<>>)
        /\ outcome.kind = "ineligible" =>
               (/\ ~noOrgans(donor)
                /\ ~ElapsedWindow
                /\ ~isDonorEligible(donor, firstOrgan(donor)).eligible)

\* A kidney donor of age 80 whose one-hour window has elapsed gets the empty list.
C14_Witness ==
    /\ Done
    /\ ElapsedWindow
    /\ donor.age = 80
    /\ donor.cold_ischemia_time_hours = Some(1)
    /\ ~isDonorEligible(donor, firstOrgan(donor)).eligible
    /\ outcome.kind = "returned"
    /\ Results = <<>>

\* The default viability hours of an organ, as the claim states them.
ClaimDefaultHours(organ) ==
    CASE organ = "kidney" -> 24 [] organ = "heart" -> 6 [] organ = "liver" -> 12

\* C15: without an explicit cold_ischemia_time_hours nothing counts down: at
\* every clock value the remaining hours are the organ default and the
\* cold-ischemia risk term is 0, every result is the one computed at clock 0,
\* and every recipient that passes the gates and the threshold is returned.
C15_NoCountdown ==
    (~noOrgans(donor) /\ ~ExplicitCIT) =>
        /\ getRemainingIschemiaHours(donor, firstOrgan(donor), now)
               = RInt(ClaimDefaultHours(firstOrgan(donor)))
        /\ coldIschemiaPenalty(donor, now) = RInt(0)
        /\ \A i \in 1..Len(matches) :
              /\ matches[i].viability_window_hours
                     = RInt(ClaimDefaultHours(firstOrgan(donor)))
              /\ matches[i] = calculateMatch(donor, matches[i].recipient,
                                             firstOrgan(donor), 0, 0)
        /\ Returned =>
              \A k \in 1..Len(recipients) :
                  (/\ PassesGates(recipients[k])
                   /\ RLt(RInt(30), calculateMatch(donor, recipients[k],
                                                   firstOrgan(donor), 0, 0).match_score)) =>
                      \E i \in 1..Len(Results) : Results[i].recipient = recipients[k]

\* A kidney record created 25 hours before the call still reports 24 hours.
C15_Witness ==
    /\ Returned
    /\ ~noOrgans(donor)
    /\ ~ExplicitCIT
    /\ firstOrgan(donor) = "kidney"
    /\ donor.created_at = Some(0)
    /\ Val(gateClock) = 25 * TicksPerHour
    /\ Len(Results) = 2
    /\ Results[1].viability_window_hours = RInt(24)

\* The weighted loci of an organ (indices into its weight list) at which both
\* the donor and the recipient have at least one antigen.
ClaimLociWithData(d, r, organ) ==
    {i \in 1..Len(HLA_LOCUS_WEIGHTS[organ]) :
        LET locus == HLA_LOCUS_WEIGHTS[organ][i][1]
        IN  /\ alleleListToAntigens(HlaLocus(d.hla_typing, locus), locus) # {}
            /\ alleleListToAntigens(HlaLocus(r.hla_typing, locus), locus) # {}}

\* The share of the donor's antigens (at most two) at a locus that the
\* recipient has too.
ClaimLocusRatio(d, r, locus) ==
    locusRatioOf(alleleListToAntigens(HlaLocus(d.hla_typing, locus), locus),
                 alleleListToAntigens(HlaLocus(r.hla_typing, locus), locus))

RECURSIVE ClaimWeightedRatios(_, _, _, _)
\* Sum over the loci in S of weight x ratio.
ClaimWeightedRatios(d, r, organ, S) ==
    IF S = {} THEN RInt(0)
    ELSE LET i == CHOOSE k \in S : TRUE
             e == HLA_LOCUS_WEIGHTS[organ][i]
         IN  RAdd(RMul(e[2], ClaimLocusRatio(d, r, e[1])),
                  ClaimWeightedRatios(d, r, organ, S \ {i}))

RECURSIVE ClaimWeights(_, _)
\* Sum over the loci in S of their weights.
ClaimWeights(organ, S) ==
    IF S = {} THEN RInt(0)
    ELSE LET i == CHOOSE k \in S : TRUE
         IN  RAdd(HLA_LOCUS_WEIGHTS[organ][i][2], ClaimWeights(organ, S \ {i}))

\* Weighted average over the loci in S, 1 when S is empty.
ClaimAverage(sum, weight) ==
    IF weight = RInt(0) THEN RInt(1) ELSE Rat(sum.n * weight.d, sum.d * weight.n)

ClaimHlaScore(d, r, organ) ==
    ClaimAverage(ClaimWeightedRatios(d, r, organ, ClaimLociWithData(d, r, organ)),
                 ClaimWeights(organ, ClaimLociWithData(d, r, organ)))

\* C16: the HLA score of every result is the weighted average of the locus
\* ratios over the weighted loci with antigens on both sides, normalised by
\* those loci's weights, and 1 when there is no such locus.
C16_MissingLocusLeftOut ==
    ~noOrgans(donor) =>
        \A i \in 1..Len(matches) :
            matches[i].compatibility_factors.hla_compatibility
                = ClaimHlaScore(donor, matches[i].recipient, firstOrgan(donor))

\* A kidney result where one weighted locus lacks data on one side and the
\* other loci give a score strictly between 0 and 1.
C16_Witness ==
    /\ Returned
    /\ ~noOrgans(donor)
    /\ firstOrgan(donor) = "kidney"
    /\ \E i \in 1..Len(Results) :
          /\ Cardinality(ClaimLociWithData(donor, Results[i].recipient, "kidney")) = 2
          /\ Results[i].compatibility_factors.hla_compatibility = Rat(1, 2)

\* An allele entry from which a numeric antigen group can be read: it holds a digit.
ClaimParseable(entry) == \E i \in 1..Len(entry) : entry[i] \in Digits

\* An allele list without its empty and unparseable entries.
ClaimCleanList(list) == SelectSeq(list, ClaimParseable)

\* A typing with every allele list cleaned.
ClaimCleanTyping(hla) ==
    IF IsNull(hla) THEN hla
    ELSE Some([k \in DOMAIN Val(hla) |-> ClaimCleanList(Val(hla)[k])])

\* A recipient with the declared unacceptable list cleaned.
ClaimCleanRecipient(r) ==
    [r EXCEPT !.hla_typing = ClaimCleanTyping(r.hla_typing),
              !.unacceptable_antigens =
                  IF IsNull(r.unacceptable_antigens) THEN None
                  ELSE Some(ClaimCleanList(Val(r.unacceptable_antigens)))]

\* C17: empty and unparseable allele entries are dropped before matching: the
\* HLA score of every result is the score of the typings without such
\* entries, and the crossmatch verdict of every pool recipient is the verdict
\* on the lists without such entries.
C17_UnparseableDropped ==
    ~noOrgans(donor) =>
        /\ \A i \in 1..Len(matches) :
              matches[i].compatibility_factors.hla_compatibility
                  = calculateHLACompatibility(
                        ClaimCleanTyping(donor.hla_typing),
                        ClaimCleanTyping(matches[i].recipient.hla_typing),
                        firstOrgan(donor))
        /\ \A k \in 1..Len(recipients) :
              hasUnacceptableAntigenConflict(donor.hla_typing, recipients[k],
                                             firstOrgan(donor))
                  = hasUnacceptableAntigenConflict(
                        ClaimCleanTyping(donor.hla_typing),
                        ClaimCleanRecipient(recipients[k]), firstOrgan(donor))

\* The antigen an unacceptable-list entry names: the entry upper-cased and
\* trimmed, without its HLA- prefix, normalised at the locus it starts with.
ClaimAntigenOfEntry(entry) ==
    normalizeUnacceptable(stripHLA(trim(toUpperCase(entry))))

\* The antigens a recipient declares unacceptable; blank entries name none.
ClaimUnacceptable(r) ==
    {ClaimAntigenOfEntry(unacceptableRaw(r)[i]) :
        i \in {k \in 1..Len(unacceptableRaw(r)) : Len(trim(unacceptableRaw(r)[k])) > 0}}

\* The important loci of an organ, as the claim lists them.
ClaimImportantLoci(organ) ==
    IF organ = "liver" THEN <<"HLA-DR">> ELSE <<"HLA-A", "HLA-B", "HLA-DR">>

\* C18: no returned recipient declares unacceptable an antigen the donor
\* carries at an important locus of the organ, however the entry is written;
\* a recipient without a list, or with an empty one, is never rejected by
\* the crossmatch.
C18_Crossmatch ==
    ~noOrgans(donor) =>
        /\ \A i \in 1..Len(matches) :
              ClaimUnacceptable(matches[i].recipient)
                  \cap donorAntigensAt(donor.hla_typing,
                                       ClaimImportantLoci(firstOrgan(donor))) = {}
        /\ \A k \in 1..Len(recipients) :
              unacceptableRaw(recipients[k]) = <<>> =>
                  ~hasUnacceptableAntigenConflict(donor.hla_typing, recipients[k],
                                                  firstOrgan(donor))

\* The decision list of the urgency tier: <<condition, tier>> rules in order.
ClaimUrgencyRules(r, organ) ==
    LET unos == organ \in {"heart", "liver"}
        meld == IF organ = "liver" /\ ~IsNull(r.meld_score) THEN Val(r.meld_score) ELSE 0
    IN  << <<unos /\ r.unos_status = Some("1A"), "critical">>,
           <<unos /\ r.unos_status = Some("1B"), "urgent">>,
           <<meld >= 30, "critical">>,
           <<meld >= 20, "urgent">>,
           <<r.urgency_score >= 8, "critical">>,
           <<r.urgency_score >= 5, "urgent">>,
           <<TRUE, "routine">> >>

\* First match wins.
ClaimUrgencyTier(r, organ) ==
    LET rules == ClaimUrgencyRules(r, organ)
        first == CHOOSE i \in 1..Len(rules) :
                     rules[i][1] /\ \A j \in 1..(i - 1) : ~rules[j][1]
    IN  rules[first][2]

\* C19: the urgency level of every result follows the decision list: UNOS
\* status first for heart and liver, then MELD for liver, then the urgency
\* score; for kidney only the urgency score counts.
C19_UrgencyTier ==
    ~noOrgans(donor) =>
        \A i \in 1..Len(matches) :
            /\ matches[i].urgency_level
                   = ClaimUrgencyTier(matches[i].recipient, firstOrgan(donor))
            /\ firstOrgan(donor) = "kidney" =>
                   matches[i].urgency_level
                       = (IF matches[i].recipient.urgency_score >= 8 THEN "critical"
                          ELSE IF matches[i].recipient.urgency_score >= 5 THEN "urgent"
                          ELSE "routine")

\* A liver recipient with UNOS 1B and MELD 35 is returned as urgent.
C19_Witness ==
    /\ Returned
    /\ ~noOrgans(donor)
    /\ firstOrgan(donor) = "liver"
    /\ \E i \in 1..Len(Results) :
          /\ Results[i].recipient.unos_status = Some("1B")
          /\ Results[i].recipient.meld_score = Some(35)
          /\ Results[i].urgency_level = "urgent"

\* The comorbidity buckets whose keyword occurs in the two histories.
ClaimBucketsHit(d, r) ==
    LET text == toLowerCase(OrEmpty(d.medical_history) \o OrEmpty(r.medical_history))
    IN  {b \in 1..Len(COMORBIDITY_BUCKETS) :
            \E k \in 1..Len(COMORBIDITY_BUCKETS[b].keywords) :
                includes(text, COMORBIDITY_BUCKETS[b].keywords[k])}

RECURSIVE ClaimBucketTotal(_)
\* Each bucket of S counted once.
ClaimBucketTotal(S) ==
    IF S = {} THEN 0
    ELSE LET b == CHOOSE x \in S : TRUE
         IN  COMORBIDITY_BUCKETS[b].penalty + ClaimBucketTotal(S \ {b})

\* The size band of an organ as <<low, high>> in hundredths.
ClaimSizeBand(organ) ==
    CASE organ = "heart" -> <<70, 130>> [] organ = "liver" -> <<60, 150>>
      [] organ = "kidney" -> <<50, 200>>

\* The donor / recipient weight ratio is known and outside the band.
ClaimOutsideBand(d, r, organ) ==
    /\ Truthy(d.weight_kg)
    /\ Truthy(r.weight_kg)
    /\ \/ 100 * Val(d.weight_kg) < ClaimSizeBand(organ)[1] * Val(r.weight_kg)
       \/ 100 * Val(d.weight_kg) > ClaimSizeBand(organ)[2] * Val(r.weight_kg)

\* The whole-number terms of the risk sum for a pair with the given match score.
ClaimRiskSteps(d, r, organ, score) ==
    (IF d.age > 60 \/ r.age > 65 THEN 15 ELSE 0)
    + (IF d.age - r.age > 25 \/ r.age - d.age > 25 THEN 10 ELSE 0)
    + (IF RLt(score, RInt(50)) THEN 20 ELSE IF RLt(score, RInt(70)) THEN 10 ELSE 0)
    + (IF organ = "heart" /\ r.unos_status = Some("1A") THEN 5 ELSE 0)
    + (IF organ = "liver" /\ ~IsNull(r.meld_score) /\ Val(r.meld_score) > 25
       THEN 10 ELSE 0)
    + (IF ClaimOutsideBand(d, r, organ) THEN 10 ELSE 0)
    + (IF ClaimBucketTotal(ClaimBucketsHit(d, r)) > 15 THEN 15
       ELSE ClaimBucketTotal(ClaimBucketsHit(d, r)))

\* The risk sum S of a pair scored when the clock read clock.
ClaimRiskSum(d, r, organ, score, hla, clock) ==
    RAdd(RAdd(RInt(ClaimRiskSteps(d, r, organ, score)),
              RMul(RSub(RInt(1), hla),
                   RInt(CASE organ = "kidney" -> 20 [] organ = "heart" -> 15
                          [] organ = "liver" -> 8))),
         coldIschemiaPenalty(d, clock))

\* risk_percentage and risk_level of a result agree with the sum S.
ClaimRiskOf(m, sum) ==
    /\ m.risk_percentage = (IF RLt(RInt(80), sum) THEN RInt(80) ELSE sum)
    /\ m.risk_level = (IF RLt(m.risk_percentage, RInt(25)) THEN "low"
                       ELSE IF RLt(m.risk_percentage, RInt(50)) THEN "medium"
                       ELSE "high")

\* The risk fields of result m of the pair are the claim's for that clock.
ClaimRiskOfResult(m, d, r, clock) ==
    ClaimRiskOf(m, ClaimRiskSum(d, r, firstOrgan(d), m.match_score,
                                m.compatibility_factors.hla_compatibility, clock))

\* The pair being scored and its result.
ScoredNow == calculateMatch(donor, compatibleRecipients[idx], firstOrgan(donor),
                            riskClock, now)

\* C20: for every scored pair, risk_percentage is min(80, S) with S the sum
\* of the age, match-score, organ, HLA, size, cold-ischemia and comorbidity
\* terms, and risk_level is low below 25, medium below 50 and high otherwise;
\* every result that was kept is of this form for a clock value between the
\* start of the call and the present.
C20_RiskSum ==
    /\ pc = "remaining" =>
          ClaimRiskOfResult(ScoredNow, donor, compatibleRecipients[idx], riskClock)
    /\ ~noOrgans(donor) =>
          \A i \in 1..Len(matches) :
              \E clock \in Val(gateClock)..now :
                  ClaimRiskOfResult(matches[i], donor, matches[i].recipient, clock)

\* A pair with a cold-ischemia penalty, comorbidity buckets worth more than 15
\* with "smoker" in both histories, and a sum above the cap.
C20_Witness ==
    /\ pc = "remaining"
    /\ ExplicitCIT
    /\ coldIschemiaPenalty(donor, riskClock) # RInt(0)
    /\ includes(toLowerCase(OrEmpty(donor.medical_history)), <<"smoker">>)
    /\ includes(toLowerCase(OrEmpty(compatibleRecipients[idx].medical_history)),
                <<"smoker">>)
    /\ ClaimBucketTotal(ClaimBucketsHit(donor, compatibleRecipients[idx])) > 15
    /\ RLt(ScoredNow.match_score, RInt(50))
    /\ ScoredNow.risk_percentage = RInt(80)
    /\ ScoredNow.risk_level = "high"

\* The size points the risk sum holds when the size term is taken from the
\* scorer's boolean instead of the ratio.
ClaimRiskWithFlag(d, r, organ, m, clock) ==
    RAdd(RSub(ClaimRiskSum(d, r, organ, m.match_score,
                           m.compatibility_factors.hla_compatibility, clock),
              RInt(IF ClaimOutsideBand(d, r, organ) THEN 10 ELSE 0)),
         RInt(IF m.compatibility_factors.size_compatibility THEN 0 ELSE 10))

\* The scorer's boolean for a pair: inside the band, bounds included, or a
\* weight is missing.
ClaimSizeFlag(d, r, organ) ==
    \/ ~Truthy(d.weight_kg)
    \/ ~Truthy(r.weight_kg)
    \/ /\ 100 * Val(d.weight_kg) >= ClaimSizeBand(organ)[1] * Val(r.weight_kg)
       /\ 100 * Val(d.weight_kg) <= ClaimSizeBand(organ)[2] * Val(r.weight_kg)

\* Result m of the pair: its flag is the band test, the size term of the
\* risk follows the flag, and the risk is the sum taken with the flag.
ClaimSizeAgreement(m, d, r, organ, clock) ==
    /\ m.compatibility_factors.size_compatibility = ClaimSizeFlag(d, r, organ)
    /\ sizeRisk(d, r, organ)
           = (IF m.compatibility_factors.size_compatibility THEN 0 ELSE 10)
    /\ m.risk_percentage = RMin(RInt(80), ClaimRiskWithFlag(d, r, organ, m, clock))

\* C21: the size penalty of the risk sum is applied exactly when
\* size_compatibility is false: size_compatibility is the band test with
\* inclusive bounds (true when a weight is missing), and the risk of every
\* scored pair is the sum with 10 added for a false size_compatibility.
C21_SizeAgreement ==
    /\ pc = "remaining" =>
          ClaimSizeAgreement(ScoredNow, donor, compatibleRecipients[idx],
                             firstOrgan(donor), riskClock)
    /\ ~noOrgans(donor) =>
          \A i \in 1..Len(matches) :
              matches[i].compatibility_factors.size_compatibility
                  = ClaimSizeFlag(donor, matches[i].recipient, firstOrgan(donor))

\* A heart pair whose ratio is exactly 0.7: compatible, and no size penalty.
C21_Witness ==
    /\ pc = "remaining"
    /\ firstOrgan(donor) = "heart"
    /\ donor.weight_kg = Some(70)
    /\ compatibleRecipients[idx].weight_kg = Some(100)
    /\ ScoredNow.compatibility_factors.size_compatibility
    /\ sizeRisk(donor, compatibleRecipients[idx], "heart") = 0

Genders == {"male", "female"}

\* The call of donor d returns recipient r when the gate was passed at clock.
WouldReturn(d, r, organ, clock, m) ==
    /\ IsNull(d.cold_ischemia_time_hours) \/ isOrganViableNow(d, organ, clock)
    /\ isDonorEligible(d, organ).eligible
    /\ filterRecipient(d, r, organ) = "keep"
    /\ aboveThreshold(m)

\* Two results differ in the gender bonus only.
SameButGender(m, n) ==
    /\ m.compatibility_factors.blood_compatibility
           = n.compatibility_factors.blood_compatibility
    /\ m.compatibility_factors.hla_compatibility = n.compatibility_factors.hla_compatibility
    /\ m.compatibility_factors.size_compatibility
           = n.compatibility_factors.size_compatibility
    /\ m.compatibility_factors.urgency_bonus = n.compatibility_factors.urgency_bonus
    /\ m.urgency_level = n.urgency_level
    /\ RSub(m.match_score, n.match_score)
           = RInt((IF m.compatibility_factors.gender_compatibility THEN 5 ELSE 0)
                  - (IF n.compatibility_factors.gender_compatibility THEN 5 ELSE 0))

\* The pair with the genders gd and gr, scored as m: it is returned exactly
\* when recipient k is, and m differs from k's result in the bonus only.
ClaimGenderCase(k, d, r, m) ==
    /\ (\E i \in 1..Len(Results) : Results[i].recipient = recipients[k])
           <=> WouldReturn(d, r, firstOrgan(donor), Val(gateClock), m)
    /\ \A i \in 1..Len(Results) :
           Results[i].recipient = recipients[k] => SameButGender(Results[i], m)

\* C22: gender never excludes a pair: in a pool with urgency scores in 1..10,
\* a recipient is returned exactly when it is returned with any other gender
\* of the donor and of the recipient, and the result then differs in the
\* 5-point gender bonus only.
C22_GenderNeverExcludes ==
    (/\ Returned
     /\ ~noOrgans(donor)
     /\ \A k \in 1..Len(recipients) : recipients[k].urgency_score \in 1..10) =>
        \A k \in 1..Len(recipients) : \A gd \in Genders : \A gr \in Genders :
            ClaimGenderCase(k, [donor EXCEPT !.gender = gd],
                            [recipients[k] EXCEPT !.gender = gr],
                            calculateMatch([donor EXCEPT !.gender = gd],
                                           [recipients[k] EXCEPT !.gender = gr],
                                           firstOrgan(donor), 0, 0))

\* A male heart donor and a female recipient: returned without the bonus.
C22_Witness ==
    /\ Returned
    /\ ~noOrgans(donor)
    /\ firstOrgan(donor) = "heart"
    /\ donor.gender = "male"
    /\ Len(Results) = 1
    /\ Results[1].recipient.gender = "female"
    /\ Results[1].recipient.urgency_score \in 1..10
    /\ ~Results[1].compatibility_factors.gender_compatibility

\* The points of the claim's table: <<HLA, size>> per organ.
ClaimPoints(organ) ==
    CASE organ = "kidney" -> <<35, 15>> [] organ = "heart" -> <<25, 25>>
      [] organ = "liver" -> <<10, 20>>

\* Gender-compatible for the bonus: same gender, or heart from female to male.
ClaimGenderBonus(d, r, organ) ==
    \/ d.gender = r.gender
    \/ organ = "heart" /\ d.gender = "female" /\ r.gender = "male"

\* The whole-number part of the total: ABO, size and gender points.
ClaimFixedPoints(d, r, organ) ==
    30 + (IF ClaimSizeFlag(d, r, organ) THEN ClaimPoints(organ)[2] ELSE 0)
       + (IF ClaimGenderBonus(d, r, organ) THEN 5 ELSE 0)

\* min(x / scale * points, points)
ClaimShare(x, scale, points) ==
    IF x >= scale THEN RInt(points) ELSE Rat(x * points, scale)

\* The unrounded total of a pair whose HLA score is hla.
ClaimTotal(d, r, organ, hla) ==
    RAdd(RAdd(RAdd(RInt(ClaimFixedPoints(d, r, organ)),
                   ClaimShare(r.urgency_score, 10, 15)),
              RMul(hla, RInt(ClaimPoints(organ)[1]))),
         IF organ = "liver" /\ ~IsNull(r.meld_score)
         THEN ClaimShare(Val(r.meld_score), 40, 20) ELSE RInt(0))

\* score is total rounded to two decimals (halves upwards).
ClaimRounded(score, total) ==
    /\ RMul(score, RInt(100)).d = 1
    /\ RLe(RSub(RMul(score, RInt(100)), Rat(1, 2)), RMul(total, RInt(100)))
    /\ RLt(RMul(total, RInt(100)), RAdd(RMul(score, RInt(100)), Rat(1, 2)))

\* The pair being scored with every factor at its best.
ClaimBestRecipient(d, r) ==
    [r EXCEPT !.urgency_score = 10, !.hla_typing = d.hla_typing,
              !.weight_kg = d.weight_kg, !.gender = d.gender, !.meld_score = Some(40)]

\* The score of result m of the pair is the rounded total and at most 100.
ClaimScoreOf(m, d, r, organ) ==
    /\ ClaimRounded(m.match_score,
                    ClaimTotal(d, r, organ, m.compatibility_factors.hla_compatibility))
    /\ RLe(m.match_score, RInt(100))

\* C23: the match_score of every scored pair is the claim's sum rounded to two
\* decimals, it is at most 100, and the pair with every factor at its best
\* scores exactly 100, for each organ.
C23_ScoreFormula ==
    /\ pc = "remaining" =>
          /\ ClaimScoreOf(ScoredNow, donor, compatibleRecipients[idx], firstOrgan(donor))
          /\ calculateMatch(donor, ClaimBestRecipient(donor, compatibleRecipients[idx]),
                            firstOrgan(donor), riskClock, now).match_score = RInt(100)
    /\ ~noOrgans(donor) =>
          \A i \in 1..Len(matches) :
              ClaimRounded(matches[i].match_score,
                           ClaimTotal(donor, matches[i].recipient, firstOrgan(donor),
                                      matches[i].compatibility_factors.hla_compatibility))

\* A liver result with a MELD score of 26 and every other factor but the
\* urgency at its best: 30 + 7.5 + 10 + 20 + 5 + 13.
C23_Witness ==
    /\ Returned
    /\ ~noOrgans(donor)
    /\ firstOrgan(donor) = "liver"
    /\ Len(Results) = 1
    /\ Results[1].recipient.meld_score = Some(26)
    /\ Results[1].match_score = Rat(855, 10)

\* The fields of compatibility_factors in the data model.
ClaimFactorFields ==
    {"blood_compatibility", "hla_compatibility", "age_compatibility",
     "size_compatibility", "gender_compatibility", "urgency_bonus",
     "time_on_list_bonus"}

\* C24: every result carries the complete factor breakdown of the data model,
\* time_on_list_bonus included, and the results view renders every non-empty
\* list that was returned.
C24_CompleteFactors ==
    /\ \A i \in 1..Len(matches) :
          DOMAIN matches[i].compatibility_factors = ClaimFactorFields
    /\ (Returned /\ Results # <<>>) => MatchResultsView(dashboard) = "match list"

\* How often recipient r occurs in the pool and in the returned list.
TimesInPool(r) == Cardinality({j \in 1..Len(recipients) : recipients[j] = r})
TimesInResults(r) == Cardinality({i \in 1..Len(Results) : Results[i].recipient = r})

\* The pool is well-formed and its urgency scores are in 1..10.
ClaimPoolWellFormed ==
    \A k \in 1..Len(recipients) :
        ~Malformed(recipients[k]) /\ recipients[k].urgency_score \in 1..10

C26_NeverExceeded ==
    (~noOrgans(donor) /\ ExplicitCIT) =>
        /\ pc = "remaining" => RLe(coldIschemiaPenalty(donor, riskClock), RInt(8))
        /\ \A i \in 1..Len(matches) : RLt(RInt(0), matches[i].viability_window_hours)
        /\ \A i \in 1..Len(Results) : RLt(RInt(0), Results[i].viability_window_hours)


\* The organ's maximum donor-recipient age difference, as the rule states it.
ClaimMaxAgeDiff(organ) ==
    CASE organ = "kidney" -> 20 [] organ = "heart" -> 10 [] organ = "liver" -> 25

\* The age term of the risk without its age-difference part.
ClaimAgeRiskNoDiff(d, r) == IF d.age > 60 \/ r.age > 65 THEN 15 ELSE 0

\* C28: every result's donor-recipient age difference is at most the organ's
\* maximum (kidney 20, heart 10, liver 25), hence at most 25, so the age
\* term of the risk of every scored pair has no age-difference part.
C28_AgeDifference ==
    ~noOrgans(donor) =>
        /\ ClaimMaxAgeDiff(firstOrgan(donor)) <= 25
        /\ \A i \in 1..Len(matches) :
              Abs(donor.age - matches[i].recipient.age)
                  <= ClaimMaxAgeDiff(firstOrgan(donor))
        /\ \A i \in 1..Len(Results) :
              Abs(donor.age - Results[i].recipient.age)
                  <= ClaimMaxAgeDiff(firstOrgan(donor))
        /\ pc = "remaining" =>
              /\ Abs(donor.age - compatibleRecipients[idx].age) <= 25
              /\ ageRisk(donor, compatibleRecipients[idx])
                     = ClaimAgeRiskNoDiff(donor, compatibleRecipients[idx])

\* A returned liver result whose age difference is above the maximum of the
\* kidney and of the heart, and within the liver's.
C28_Witness ==
    /\ Returned
    /\ ~noOrgans(donor)
    /\ firstOrgan(donor) = "liver"
    /\ \E i \in 1..Len(Results) : Abs(donor.age - Results[i].recipient.age) > 20

(***************************************************************************)
(* The store: the donors, recipients and allocations tables and the        *)
(* sessions that call apiService on them.  Every await of createAllocation *)
(* and deleteAllocation is a step of its own, so the calls of two sessions *)
(* interleave.  The wall clock is now, in steps of one hour.                *)
(***************************************************************************)
\* Most hours that pass in the store.
MaxStoreHours == 1
\* Most allocation rows ever inserted.
MaxAllocations == 2

Users == 1..2
RecipientIds == {"r1"}

\* The recipients row without its status column.
StoreRecipient(id) == RecipientBase("kidney")

\* The donors row: a kidney donor with a cold-ischemia limit of one hour and
\* no column for the ischemia start.
StoreDonor(row) ==
    Donor(Some(<<"kidney">>), 40, "male", "O-", HlaFull, Some(70), NoHistory, Trauma,
          Some(1), <<None, Some(row.updated_at), Some(0)>>)

Idle == [pc |-> "idle", matches |-> <<>>, allocation |-> None]

InitStore ==
    /\ store = [donor |-> [status |-> "available", updated_at |-> 0],
                recipients |-> [id \in RecipientIds |-> "active"],
                allocations |-> {},
                nextId |-> 1,
                sessions |-> [u \in Users |-> Idle],
                created |-> {},
                expired |-> FALSE,
                restored |-> None]
    /\ now = 0
    /\ ticks = 0
    /\ donor = DonorBase("kidney")
    /\ recipients = <<>>
    /\ pc = "done"
    /\ gateClock = None
    /\ compatibleRecipients = <<>>
    /\ idx = 1
    /\ riskClock = 0
    /\ matches = <<>>
    /\ outcome = Pending
    /\ dashboard = [matches |-> <<>>, matchingLoading |-> FALSE]
    /\ calls = <<>>

\* An hour passes.
StoreTick ==
    /\ ticks < MaxStoreHours
    /\ now' = now + TicksPerHour
    /\ ticks' = ticks + 1
    /\ UNCHANGED <<store, single, calls>>

\* recipients.filter(r => r.status === 'active'), in the order of the rows.
activeRecipients(s) ==
    SelectSeq(<<"r1">>, LAMBDA id : s.recipients[id] = "active")

\* apiService.findMatches(donorId) at the given clock: the donor row whatever
\* its status, against the active recipients.
apiFindMatches(s, clock) ==
    LET d == StoreDonor(s.donor)
        pool == [i \in 1..Len(activeRecipients(s)) |->
                    StoreRecipient(activeRecipients(s)[i])]
    IN  aloneOutcomeOf([donor |-> d,
                        reads |-> [i \in 1..Len(pool) |-> <<clock, clock>>]],
                       findMatchesEntry(d, pool, clock))

recipientId(r) == CHOOSE id \in RecipientIds : StoreRecipient(id) = r

\* The window of the donors row has elapsed at the given clock.
windowElapsed(s, clock) == ~isOrganViableNow(StoreDonor(s.donor), "kidney", clock)

\* A session fetches the match list of the donor and keeps it.
ApiFindMatches(u) ==
    /\ store.sessions[u].pc = "idle"
    /\ LET found == apiFindMatches(store, now).value
       IN  store' = [store EXCEPT
                        !.sessions[u].matches =
                            [i \in 1..Len(found) |-> recipientId(found[i].recipient)],
                        !.expired = @ \/ (found = <<>> /\ windowElapsed(store, now))]
    /\ UNCHANGED <<now, ticks, single, calls>>

\* createAllocation up to its first await: the insert, for a match of the
\* list the session holds.
CreateAllocationInsert(u, k) ==
    /\ store.sessions[u].pc = "idle"
    /\ k \in 1..Len(store.sessions[u].matches)
    /\ store.nextId <= MaxAllocations
    /\ LET row == [id |-> store.nextId, donor_id |-> "d1",
                   recipient_id |-> store.sessions[u].matches[k]]
       IN  store' = [store EXCEPT !.allocations = @ \cup {row},
                                  !.nextId = @ + 1,
                                  !.sessions[u].pc = "donorStatus",
                                  !.sessions[u].allocation = Some(row)]
    /\ UNCHANGED <<now, ticks, single, calls>>

\* update({ status }) on the donors row; the trigger sets updated_at.  A
\* failed update leaves the row as it is and raises nothing.
updateDonorStatus(s, status, ok, clock) ==
    IF ok THEN [s EXCEPT !.donor = [status |-> status, updated_at |-> clock]]
    ELSE s

updateRecipientStatus(s, id, status, ok) ==
    IF ok THEN [s EXCEPT !.recipients[id] = status] ELSE s

CreateAllocationDonorStatus(u, ok) ==
    /\ store.sessions[u].pc = "donorStatus"
    /\ store' = [updateDonorStatus(store, "allocated", ok, now)
                    EXCEPT !.sessions[u].pc = "recipientStatus"]
    /\ UNCHANGED <<now, ticks, single, calls>>

\* The second status update, the return of createAllocation and onComplete.
CreateAllocationRecipientStatus(u, ok) ==
    /\ store.sessions[u].pc = "recipientStatus"
    /\ LET row == Val(store.sessions[u].allocation)
       IN  store' = [updateRecipientStatus(store, row.recipient_id, "transplanted", ok)
                        EXCEPT !.sessions[u] = Idle,
                               !.created = @ \cup {row.id}]
    /\ UNCHANGED <<now, ticks, single, calls>>

\* deleteAllocation up to its first await: the row is fetched.
DeleteAllocationFetch(u, id) ==
    /\ store.sessions[u].pc = "idle"
    /\ \E row \in store.allocations :
          /\ row.id = id
          /\ store' = [store EXCEPT !.sessions[u].pc = "delete",
                                    !.sessions[u].allocation = Some(row)]
    /\ UNCHANGED <<now, ticks, single, calls>>

DeleteAllocationDelete(u) ==
    /\ store.sessions[u].pc = "delete"
    /\ store' = [store EXCEPT !.allocations = @ \ {Val(store.sessions[u].allocation)},
                              !.sessions[u].pc = "restoreDonor"]
    /\ UNCHANGED <<now, ticks, single, calls>>

DeleteAllocationDonorStatus(u, ok) ==
    /\ store.sessions[u].pc = "restoreDonor"
    /\ store' = [updateDonorStatus(store, "available", ok, now)
                    EXCEPT !.sessions[u].pc = "restoreRecipient"]
    /\ UNCHANGED <<now, ticks, single, calls>>

\* The second status update and the return of deleteAllocation; restored
\* records the two statuses as they are when it returns.
DeleteAllocationRecipientStatus(u, ok) ==
    /\ store.sessions[u].pc = "restoreRecipient"
    /\ LET row == Val(store.sessions[u].allocation)
           after == updateRecipientStatus(store, row.recipient_id, "active", ok)
       IN  store' = [after EXCEPT
                        !.sessions[u].pc = "idle",
                        !.sessions[u].allocation = None,
                        !.restored = Some([donor |-> after.donor.status,
                                           recipient |-> after.recipients[row.recipient_id]])]
    /\ UNCHANGED <<now, ticks, single, calls>>

NextStore ==
    \/ StoreTick
    \/ \E u \in Users : ApiFindMatches(u)
    \/ \E u \in Users, k \in 1..Cardinality(RecipientIds) : CreateAllocationInsert(u, k)
    \/ \E u \in Users, ok \in BOOLEAN : CreateAllocationDonorStatus(u, ok)
    \/ \E u \in Users, ok \in BOOLEAN : CreateAllocationRecipientStatus(u, ok)
    \/ \E u \in Users, id \in 1..MaxAllocations : DeleteAllocationFetch(u, id)
    \/ \E u \in Users : DeleteAllocationDelete(u)
    \/ \E u \in Users, ok \in BOOLEAN : DeleteAllocationDonorStatus(u, ok)
    \/ \E u \in Users, ok \in BOOLEAN : DeleteAllocationRecipientStatus(u, ok)

SpecStore == InitStore /\ [][NextStore]_vars

\* C27: once findMatches has returned an empty list for the donor because
\* its cold-ischemia window elapsed, a findMatches call for that donor
\* returns an empty list in every later state; the limit and the ischemia
\* start are never changed explicitly.
C27_ExpiryPermanent ==
    (store # <<>> /\ store.expired) => apiFindMatches(store, now).value = <<>>

\* C29: at most one allocation row exists per donor and per recipient.
C29_NoDoubleAllocation ==
    store # <<>> =>
        \A a \in store.allocations, b \in store.allocations :
            a # b => (a.donor_id # b.donor_id /\ a.recipient_id # b.recipient_id)

\* C30: every allocation row whose createAllocation has returned has a
\* donor with status allocated and a recipient with status transplanted, who
\* is not offered by findMatches; and deleteAllocation returns with the donor
\* available and the recipient active.
C30_StatusConsistent ==
    store # <<>> =>
        /\ \A a \in store.allocations :
              a.id \in store.created =>
                  /\ store.donor.status = "allocated"
                  /\ store.recipients[a.recipient_id] = "transplanted"
                  /\ \A i \in 1..Len(apiFindMatches(store, now).value) :
                        recipientId(apiFindMatches(store, now).value[i].recipient)
                            # a.recipient_id
        /\ ~IsNull(store.restored) =>
              Val(store.restored) = [donor |-> "available", recipient |-> "active"]
=============================================================================
